---- MODULE Spec2Model ----
(***************************************************************************)
(* Governance state machine and publication/version store of the          *)
(* knowledge-article pipeline: generation/governance.py,                   *)
(* generation/publish.py, the draft-creating tail of                       *)
(* generation/generator.py and the tables of db/models.py.                 *)
(***************************************************************************)
EXTENDS Integers, Sequences, FiniteSets, TLC

\* ------------------------------------------------------------------ bounds
MaxDrafts == 2
MaxRollbacks == 1
MaxOps == 7
MaxPending == 2
MaxRaceOps == 6

\* ------------------------------------------------------------ input domains
Tickets == {"CS-1", "CS-2"}
Reviewers == {"alice"}
NULL == "NULL"
Notes == {"note"}
\* A nullable DateTime column is NoTime until datetime.utcnow() stamps it.
NoTime == 0
utcnow == 1
\* draft_id / source_draft_id = None
NoDraft == 0
\* kb_article_id = None
NoArticle == 0
\* uuid4 values: a draft id is the rank of its creation; an article created by
\* a publish takes a fresh id, here the id of the draft that created it.
DraftIds == 1 .. MaxDrafts
ArticleIds == 1 .. MaxDrafts

\* The content a case document hands to the draft row: title, rendered body
\* and the taxonomy publish reads back out of case_json.
CaseDocs ==
    { [title |-> "tA", body |-> "A", module |-> "Auth"],
      [title |-> "tB", body |-> "B", module |-> NULL] }

Statuses == {"draft", "approved", "rejected", "published", "superseded"}

ALLOWED_TRANSITIONS ==
    [s \in Statuses |->
        CASE s = "draft"    -> {"approved", "rejected", "superseded"}
          [] s = "approved" -> {"published", "rejected", "superseded"}
          [] OTHER          -> {}]

\* The status sets a caller of supersede_other_drafts passes.
StatusSets == { {"draft", "approved"}, {"draft", "rejected"} }

GenReason == "Superseded by newer draft generation."
ApproveReason == "Superseded by approved draft."
ManualReason == "Superseded manually."

VARIABLES
    drafts,     \* kb_drafts: draft_id -> row
    articles,   \* published_kb_articles: kb_article_id -> row
    versions,   \* kb_article_versions by kb_article_id, each in insertion order
    events,     \* learning_events by draft_id (NoDraft for None), each in insertion order
    pending,    \* generate requests between their query and their commit
    rollbacks,  \* number of rollbacks performed
    ops,        \* number of operations that committed
    result,     \* outcome of the last call: "ok" or the error it raised
    evidence,   \* evidence_units: the rows of the table
    gen,        \* the environment of generation requests and the last document built
    edges       \* kb_lineage_edges: the rows of the table in insertion order

vars == <<drafts, articles, versions, events, pending, rollbacks, ops, result, evidence, gen, edges>>
store == <<drafts, articles, versions, events>>

\* ----------------------------------------------------------------- helpers
\* Faulty variant: the event is built and never added to the session.
LogEventLost(evs, type, d, t, meta) == evs

\* _log_event, and the LearningEvent rows generate_kb_draft, publish_draft and
\* rollback_version add themselves.
_log_event(evs, type, d, t, meta) ==
    [evs EXCEPT ![d] = Append(@, [event_type |-> type, draft_id |-> d,
                                  ticket_id |-> t, metadata |-> meta])]

NoMeta == [kept_draft_id |-> NoDraft, kb_article_id |-> NoArticle, version |-> 0, target_version |-> 0]

\* Faulty variant: the message names the two states the wrong way round.
InvalidTransitionSwapped(current_status, target_status) ==
    "Invalid status transition: " \o target_status \o " -> " \o current_status

\* The ValueError of _validate_transition.
InvalidTransition(current_status, target_status) ==
    "Invalid status transition: " \o current_status \o " -> " \o target_status

\* Faulty variant: the transition table is not consulted.
ValidateTransitionOff(current_status, target_status) == TRUE

_validate_transition(current_status, target_status) ==
    target_status \in ALLOWED_TRANSITIONS[current_status]

\* _get_taxonomy: case_data.get("module") or "N/A"
_get_taxonomy(draft) == IF draft.case_json.module # NULL THEN draft.case_json.module ELSE "N/A"

\* Faulty variant: the ticket filter is missing.
SupersedeQueryAnyTicket(ds, ticket_id, keep_draft_id, statuses) ==
    { d \in DOMAIN ds : d # keep_draft_id /\ ds[d].status \in statuses }

\* Faulty variant: the status filter is narrowed to "draft".
SupersedeQueryDraftOnly(ds, ticket_id, keep_draft_id, statuses) ==
    { d \in DOMAIN ds : /\ ds[d].ticket_id = ticket_id
                        /\ d # keep_draft_id
                        /\ ds[d].status = "draft" }

\* The rows the filter of supersede_other_drafts selects.
SupersedeQuery(ds, ticket_id, keep_draft_id, statuses) ==
    { d \in DOMAIN ds : /\ ds[d].ticket_id = ticket_id
                        /\ d # keep_draft_id
                        /\ ds[d].status \in statuses }

\* The for-loop of supersede_other_drafts over the rows of the query.  Each
\* pass touches one row and that row's events only, so the result does not
\* depend on the order of the rows.  ok = FALSE when _validate_transition
\* raised, with its message in error.
RECURSIVE SupersedeLoop(_, _, _, _, _, _)
SupersedeLoop(rows, ds, evs, keep_draft_id, reason, reviewer) ==
    IF rows = {} THEN [ok |-> TRUE, drafts |-> ds, events |-> evs, error |-> "ok"]
    ELSE LET d == CHOOSE x \in rows : \A y \in rows : x <= y IN
         IF ~_validate_transition(ds[d].status, "superseded")
         THEN [ok |-> FALSE, drafts |-> ds, events |-> evs,
               error |-> InvalidTransition(ds[d].status, "superseded")]
         ELSE SupersedeLoop(
                rows \ {d},
                [ds EXCEPT ![d].status = "superseded",
                           ![d].reviewer = reviewer,
                           ![d].reviewed_at = utcnow,
                           ![d].review_notes = reason],
                _log_event(evs, "superseded", d, ds[d].ticket_id,
                           [NoMeta EXCEPT !.kept_draft_id = keep_draft_id]),
                keep_draft_id, reason, reviewer)

supersede_other_drafts(ds, evs, ticket_id, keep_draft_id, reason, reviewer, statuses) ==
    SupersedeLoop(SupersedeQuery(ds, ticket_id, keep_draft_id, statuses),
                  ds, evs, keep_draft_id, reason, reviewer)

UnusedDraftIds == DraftIds \ (DOMAIN drafts \cup { p.draft_id : p \in pending })

FreshDraftId == CHOOSE d \in UnusedDraftIds : \A e \in UnusedDraftIds : d <= e

NewDraft(ticket_id, doc) ==
    [ticket_id |-> ticket_id, title |-> doc.title, body_markdown |-> doc.body,
     case_json |-> [module |-> doc.module], status |-> "draft",
     reviewer |-> NULL, reviewed_at |-> NoTime, review_notes |-> NULL,
     published_at |-> NoTime]

Extend(f, k, row) == [x \in DOMAIN f \cup {k} |-> IF x = k THEN row ELSE f[x]]

\* Faulty variant: the already-published guard is missing.
PublishCheckNoIdempotency(draft) ==
    IF draft.status # "approved" THEN "NotApproved" ELSE "ok"

\* Faulty variant: the approval guard is missing.
PublishCheckNoApproval(draft) ==
    IF draft.status = "published" \/ draft.published_at # NoTime THEN "AlreadyPublished"
    ELSE "ok"

\* The two guards at the head of publish_draft.
PublishCheck(draft) ==
    IF draft.status = "published" \/ draft.published_at # NoTime THEN "AlreadyPublished"
    ELSE IF draft.status # "approved" THEN "NotApproved"
    ELSE "ok"

\* Faulty variant: the increment is missing.
NextVersionNumberStale(article) == article.current_version

\* article.current_version + 1, in publish_draft and in rollback_version
NextVersionNumber(article) == article.current_version + 1

\* PublishedKBArticle(...) of a first publish
NewArticle(draft_id, draft, title, body_markdown, module) ==
    [latest_draft_id |-> draft_id, title |-> title,
     body_markdown |-> body_markdown, module |-> module,
     source_type |-> "learned", source_ticket_id |-> draft.ticket_id,
     current_version |-> 1]

\* Faulty variant: the body of the article is not overwritten.
UpdateArticleKeepBody(article, draft_id, title, body_markdown, module, version_number) ==
    [article EXCEPT !.latest_draft_id = draft_id,
                    !.title = title,
                    !.module = module,
                    !.current_version = version_number]

\* The assignments of publish_draft to an existing article.
UpdateArticle(article, draft_id, title, body_markdown, module, version_number) ==
    [article EXCEPT !.latest_draft_id = draft_id,
                    !.title = title,
                    !.body_markdown = body_markdown,
                    !.module = module,
                    !.current_version = version_number]

\* Faulty variant: the title of the article is not restored.
RollbackArticleKeepTitle(article, target, new_version_number) ==
    [article EXCEPT !.body_markdown = target.body_markdown,
                    !.current_version = new_version_number]

\* Faulty variant: the body of the article is not restored.
RollbackArticleKeepBody(article, target, new_version_number) ==
    [article EXCEPT !.title = target.title,
                    !.current_version = new_version_number]

\* Faulty variant: the lineage draft is reset to the restored version's.
RollbackArticleRestoreLineage(article, target, new_version_number) ==
    [article EXCEPT !.body_markdown = target.body_markdown,
                    !.title = target.title,
                    !.latest_draft_id = target.source_draft_id,
                    !.current_version = new_version_number]

\* The assignments of rollback_version to the article.
RollbackArticle(article, target, new_version_number) ==
    [article EXCEPT !.body_markdown = target.body_markdown,
                    !.title = target.title,
                    !.current_version = new_version_number]

\* Faulty variant: the newest row of the article is replaced.
AddVersionOverwriting(vs, kb_article_id, row) ==
    IF kb_article_id \in DOMAIN vs
    THEN [vs EXCEPT ![kb_article_id] = Append(SubSeq(@, 1, Len(@) - 1), row)]
    ELSE Extend(vs, kb_article_id, <<row>>)

\* session.add(version): a new row of kb_article_versions
AddVersion(vs, kb_article_id, row) ==
    IF kb_article_id \in DOMAIN vs
    THEN [vs EXCEPT ![kb_article_id] = Append(@, row)]
    ELSE Extend(vs, kb_article_id, <<row>>)

\* No generation environment: the specifications of the review workflow take
\* the case document of a draft as an input.
NoGen == [mode |-> NULL]

\* --------------------------------------------------------------------- Init
Init ==
    /\ drafts = << >>
    /\ articles = << >>
    /\ versions = << >>
    /\ events = [d \in DraftIds \cup {NoDraft} |-> << >>]
    /\ pending = {}
    /\ rollbacks = 0
    /\ ops = 0
    /\ result = "ok"
    /\ evidence = {}
    /\ gen = NoGen
    /\ edges = << >>

Committed ==
    /\ ops < MaxOps
    /\ ops' = ops + 1

\* The call raised: the session is closed without a commit.
Raise(error) ==
    /\ result' = error
    /\ UNCHANGED <<drafts, articles, versions, events, pending, rollbacks, ops, evidence, gen, edges>>

\* ------------------------------------------------------------------ actions
\* Faulty variant: the new draft is inserted without superseding the others.
GenerateInsertOnly(ticket_id, doc) ==
    /\ UnusedDraftIds # {}
    /\ drafts' = Extend(drafts, FreshDraftId, NewDraft(ticket_id, doc))
    /\ events' = _log_event(events, "draft_generated", FreshDraftId, ticket_id, NoMeta)
    /\ result' = "ok"
    /\ Committed
    /\ UNCHANGED <<articles, versions, pending, rollbacks, evidence, gen, edges>>

\* generate_kb_draft from the draft id on, as one unit of work.  The row is
\* taken to be accepted with its generation_mode and rlm_trace_json values,
\* columns that db/__init__.py adds to kb_drafts; neither is read by the
\* operations below.
Generate(ticket_id, doc) ==
    /\ UnusedDraftIds # {}
    /\ LET draft_id == FreshDraftId
           r == supersede_other_drafts(drafts, events, ticket_id, draft_id,
                                       GenReason, NULL, {"draft", "approved"})
       IN /\ drafts' = Extend(r.drafts, draft_id, NewDraft(ticket_id, doc))
          /\ events' = _log_event(r.events, "draft_generated", draft_id, ticket_id, NoMeta)
          /\ result' = "ok"
    /\ Committed
    /\ UNCHANGED <<articles, versions, pending, rollbacks, evidence, gen, edges>>

\* What write_lineage_edges may end in: it returns, or the store refuses its
\* SELECT on evidence_units or its commit of the edge rows.
LineageOutcomes == {"ok", "OperationalError"}

\* generate_draft_endpoint: generate_kb_draft, which commits the supersessions,
\* the draft and the events, and then write_lineage_edges in the same session
\* with a commit of its own.  The edge rows are read by none of the
\* operations here and are not kept.
GenerateDraftEndpoint(ticket_id, doc, lineage) ==
    /\ UnusedDraftIds # {}
    /\ LET draft_id == FreshDraftId
           r == supersede_other_drafts(drafts, events, ticket_id, draft_id,
                                       GenReason, NULL, {"draft", "approved"})
       IN /\ drafts' = Extend(r.drafts, draft_id, NewDraft(ticket_id, doc))
          /\ events' = _log_event(r.events, "draft_generated", draft_id, ticket_id, NoMeta)
    /\ Committed
    /\ result' = lineage
    /\ UNCHANGED <<articles, versions, pending, rollbacks, evidence, gen, edges>>

\* Faulty variant: a draft whose document failed verification is refused.
ApproveVerifiedOnly(draft_id, reviewer, notes) ==
    IF draft_id \notin DOMAIN drafts
    THEN Raise("DraftNotFound")
    ELSE IF gen # NoGen /\ gen.mode = "rlm" /\ gen.draft_id = draft_id /\ ~gen.verifier.ok
    THEN Raise("VerifierFailure")
    ELSE IF ~_validate_transition(drafts[draft_id].status, "approved")
    THEN Raise(InvalidTransition(drafts[draft_id].status, "approved"))
    ELSE LET stamped == [drafts EXCEPT ![draft_id].status = "approved",
                                       ![draft_id].reviewer = reviewer,
                                       ![draft_id].reviewed_at = utcnow,
                                       ![draft_id].review_notes = notes]
             ticket_id == drafts[draft_id].ticket_id
             r == supersede_other_drafts(stamped, events, ticket_id, draft_id,
                                         ApproveReason, reviewer, {"draft", "approved"})
         IN IF ~r.ok
            THEN Raise(r.error)
            ELSE /\ drafts' = r.drafts
                 /\ events' = _log_event(r.events, "approved", draft_id, ticket_id, NoMeta)
                 /\ result' = "ok"
                 /\ Committed
         /\ UNCHANGED <<articles, versions, pending, rollbacks, evidence, gen, edges>>

\* approve_draft
Approve(draft_id, reviewer, notes) ==
    IF draft_id \notin DOMAIN drafts
    THEN Raise("DraftNotFound")
    ELSE IF ~_validate_transition(drafts[draft_id].status, "approved")
    THEN Raise(InvalidTransition(drafts[draft_id].status, "approved"))
    ELSE LET stamped == [drafts EXCEPT ![draft_id].status = "approved",
                                       ![draft_id].reviewer = reviewer,
                                       ![draft_id].reviewed_at = utcnow,
                                       ![draft_id].review_notes = notes]
             ticket_id == drafts[draft_id].ticket_id
             r == supersede_other_drafts(stamped, events, ticket_id, draft_id,
                                         ApproveReason, reviewer, {"draft", "approved"})
         IN IF ~r.ok
            THEN Raise(r.error)
            ELSE /\ drafts' = r.drafts
                 /\ events' = _log_event(r.events, "approved", draft_id, ticket_id, NoMeta)
                 /\ result' = "ok"
                 /\ Committed
         /\ UNCHANGED <<articles, versions, pending, rollbacks, evidence, gen, edges>>

\* Faulty variant: reject cascades as approve does.
RejectCascading(draft_id, reviewer, notes) ==
    IF draft_id \notin DOMAIN drafts
    THEN Raise("DraftNotFound")
    ELSE IF ~_validate_transition(drafts[draft_id].status, "rejected")
    THEN Raise(InvalidTransition(drafts[draft_id].status, "rejected"))
    ELSE LET stamped == [drafts EXCEPT ![draft_id].status = "rejected",
                                       ![draft_id].reviewer = reviewer,
                                       ![draft_id].reviewed_at = utcnow,
                                       ![draft_id].review_notes = notes]
             r == supersede_other_drafts(stamped, events, drafts[draft_id].ticket_id, draft_id,
                                         ApproveReason, reviewer, {"draft", "approved"})
         IN /\ drafts' = r.drafts
            /\ events' = _log_event(r.events, "rejected", draft_id, drafts[draft_id].ticket_id, NoMeta)
            /\ result' = "ok"
            /\ Committed
            /\ UNCHANGED <<articles, versions, pending, rollbacks, evidence, gen, edges>>

\* Faulty variant: the rejection is written without its audit event.
RejectUnlogged(draft_id, reviewer, notes) ==
    IF draft_id \notin DOMAIN drafts
    THEN Raise("DraftNotFound")
    ELSE IF ~_validate_transition(drafts[draft_id].status, "rejected")
    THEN Raise(InvalidTransition(drafts[draft_id].status, "rejected"))
    ELSE /\ drafts' = [drafts EXCEPT ![draft_id].status = "rejected",
                                     ![draft_id].reviewer = reviewer,
                                     ![draft_id].reviewed_at = utcnow,
                                     ![draft_id].review_notes = notes]
         /\ result' = "ok"
         /\ Committed
         /\ UNCHANGED <<articles, versions, events, pending, rollbacks, evidence, gen, edges>>

\* reject_draft
Reject(draft_id, reviewer, notes) ==
    IF draft_id \notin DOMAIN drafts
    THEN Raise("DraftNotFound")
    ELSE IF ~_validate_transition(drafts[draft_id].status, "rejected")
    THEN Raise(InvalidTransition(drafts[draft_id].status, "rejected"))
    ELSE /\ drafts' = [drafts EXCEPT ![draft_id].status = "rejected",
                                     ![draft_id].reviewer = reviewer,
                                     ![draft_id].reviewed_at = utcnow,
                                     ![draft_id].review_notes = notes]
         /\ events' = _log_event(events, "rejected", draft_id, drafts[draft_id].ticket_id, NoMeta)
         /\ result' = "ok"
         /\ Committed
         /\ UNCHANGED <<articles, versions, pending, rollbacks, evidence, gen, edges>>

\* supersede_other_drafts called on its own and committed by its caller.  A
\* caller whose call raised closes its session, which discards the rows the
\* loop had already changed.
SupersedeOthers(ticket_id, keep_draft_id, reviewer, statuses) ==
    LET r == supersede_other_drafts(drafts, events, ticket_id, keep_draft_id,
                                    ManualReason, reviewer, statuses)
    IN IF ~r.ok
       THEN Raise(r.error)
       ELSE /\ drafts' = r.drafts
            /\ events' = r.events
            /\ result' = "ok"
            /\ IF r.drafts = drafts THEN UNCHANGED ops ELSE Committed
         /\ UNCHANGED <<articles, versions, pending, rollbacks, evidence, gen, edges>>

\* publish_draft
Publish(draft_id, reviewer, change_note, kb_article_id) ==
    IF draft_id \notin DOMAIN drafts
    THEN Raise("DraftNotFound")
    ELSE IF PublishCheck(drafts[draft_id]) # "ok"
    THEN Raise(PublishCheck(drafts[draft_id]))
    ELSE IF kb_article_id # NoArticle /\ kb_article_id \notin DOMAIN articles
    THEN Raise("ArticleNotFound")
    ELSE LET draft == drafts[draft_id]
             module == _get_taxonomy(draft)
             title == draft.title
             body_markdown == draft.body_markdown
             article_id == IF kb_article_id = NoArticle THEN draft_id ELSE kb_article_id
             version_number == IF kb_article_id = NoArticle THEN 1
                               ELSE NextVersionNumber(articles[kb_article_id])
             version == [kb_article_id |-> article_id, version |-> version_number,
                         source_draft_id |-> draft_id, body_markdown |-> body_markdown,
                         title |-> title, reviewer |-> reviewer,
                         change_note |-> change_note, is_rollback |-> FALSE]
         IN /\ articles' =
                 IF kb_article_id = NoArticle
                 THEN Extend(articles, article_id,
                             NewArticle(draft_id, draft, title, body_markdown, module))
                 ELSE [articles EXCEPT ![kb_article_id] =
                         UpdateArticle(@, draft_id, title, body_markdown, module, version_number)]
            /\ versions' = AddVersion(versions, article_id, version)
            /\ drafts' = [drafts EXCEPT ![draft_id].status = "published",
                                        ![draft_id].published_at = utcnow]
            /\ events' = _log_event(events, "published", draft_id, draft.ticket_id,
                            [NoMeta EXCEPT !.kb_article_id = article_id, !.version = version_number])
            /\ result' = "ok"
            /\ Committed
            /\ UNCHANGED <<pending, rollbacks, evidence, gen, edges>>

\* Faulty variant: a missing target falls back to the newest row.
TargetRowsOrNewest(kb_article_id, target_version) ==
    IF \E i \in 1 .. Len(versions[kb_article_id]) : versions[kb_article_id][i].version = target_version
    THEN { i \in 1 .. Len(versions[kb_article_id]) : versions[kb_article_id][i].version = target_version }
    ELSE { Len(versions[kb_article_id]) }

\* The rows the target query of rollback_version finds.
TargetRows(kb_article_id, target_version) ==
    { i \in 1 .. Len(versions[kb_article_id]) : versions[kb_article_id][i].version = target_version }

\* rollback_version
Rollback(kb_article_id, target_version, reviewer, note) ==
    IF kb_article_id \notin DOMAIN articles
    THEN Raise("ArticleNotFound")
    ELSE IF TargetRows(kb_article_id, target_version) = {}
    THEN Raise("VersionNotFound")
    ELSE IF Cardinality(TargetRows(kb_article_id, target_version)) > 1
    THEN Raise("MultipleResultsFound")
    ELSE /\ rollbacks < MaxRollbacks
         /\ LET article == articles[kb_article_id]
                target == versions[kb_article_id][CHOOSE i \in TargetRows(kb_article_id, target_version) : TRUE]
                new_version_number == NextVersionNumber(article)
            IN /\ versions' = AddVersion(versions, kb_article_id,
                    [kb_article_id |-> kb_article_id, version |-> new_version_number,
                     source_draft_id |-> NoDraft, body_markdown |-> target.body_markdown,
                     title |-> target.title, reviewer |-> reviewer,
                     change_note |-> note, is_rollback |-> TRUE])
               /\ articles' = [articles EXCEPT ![kb_article_id] =
                                  RollbackArticle(@, target, new_version_number)]
               /\ events' = _log_event(events, "rollback", NoDraft, article.source_ticket_id,
                               [NoMeta EXCEPT !.kb_article_id = kb_article_id,
                                              !.target_version = target_version,
                                              !.version = new_version_number])
         /\ result' = "ok"
         /\ rollbacks' = rollbacks + 1
         /\ Committed
         /\ UNCHANGED <<drafts, pending, evidence, gen, edges>>

\* Faulty variant: the payload is read from the newest draft of the article's
\* ticket instead of the article row.
ExportNewestDraft(kb_article_id) ==
    LET article == articles[kb_article_id]
        ds == { d \in DOMAIN drafts : drafts[d].ticket_id = article.source_ticket_id }
        newest == CHOOSE d \in ds : \A e \in ds : e <= d
    IN [kb_article_id |-> kb_article_id, title |-> drafts[newest].title,
        body_markdown |-> drafts[newest].body_markdown, module |-> article.module,
        source_type |-> article.source_type, source_ticket_id |-> article.source_ticket_id,
        version |-> article.current_version, lineage_draft_id |-> newest]

\* The dict export_for_indexer returns for an article that exists.
export_for_indexer(kb_article_id) ==
    LET article == articles[kb_article_id]
    IN [kb_article_id |-> kb_article_id, title |-> article.title,
        body_markdown |-> article.body_markdown, module |-> article.module,
        source_type |-> article.source_type, source_ticket_id |-> article.source_ticket_id,
        version |-> article.current_version, lineage_draft_id |-> article.latest_draft_id]

\* A call of export_for_indexer: get_published_article raises for an id
\* without a row; nothing is written either way.
Export(kb_article_id) ==
    /\ result' = IF kb_article_id \in DOMAIN articles THEN "ok" ELSE "ArticleNotFound"
    /\ UNCHANGED <<drafts, articles, versions, events, pending, rollbacks, ops, evidence, gen, edges>>

\* target_version is compared for equality with the version column only: the
\* numbers the article's rows hold, one below them and one above them, and
\* version 1 of an article that does not exist.
VersionArgs(kb_article_id) ==
    IF kb_article_id \in DOMAIN articles
    THEN 0 .. (articles[kb_article_id].current_version + 1)
    ELSE {1}

PublishArgs == ArticleIds \cup {NoArticle}
RollbackNote == "rollback note"

\* The operations the API and the scripts expose, each one unit of work.
Next ==
    \/ \E t \in Tickets, doc \in CaseDocs : Generate(t, doc)
    \/ \E d \in DraftIds, r \in Reviewers, n \in Notes : Approve(d, r, n)
    \/ \E d \in DraftIds, r \in Reviewers, n \in Notes : Reject(d, r, n)
    \/ \E d \in DraftIds, r \in Reviewers, n \in Notes, a \in PublishArgs : Publish(d, r, n, a)
    \/ \E a \in ArticleIds : \E v \in VersionArgs(a), r \in Reviewers :
            Rollback(a, v, r, RollbackNote)
    \/ \E a \in ArticleIds : Export(a)

Spec == Init /\ [][Next]_vars

\* The same operations and direct calls of supersede_other_drafts which, as
\* its callers do, keep a draft of the ticket they name.
NextLib ==
    \/ \E t \in Tickets, doc \in CaseDocs : Generate(t, doc)
    \/ \E d \in DraftIds, r \in Reviewers, n \in Notes : Approve(d, r, n)
    \/ \E d \in DraftIds, r \in Reviewers, n \in Notes : Reject(d, r, n)
    \/ \E d \in DOMAIN drafts, ss \in StatusSets :
            SupersedeOthers(drafts[d].ticket_id, d, NULL, ss)
    \/ \E d \in DraftIds, r \in Reviewers, n \in Notes, a \in PublishArgs : Publish(d, r, n, a)
    \/ \E a \in ArticleIds : \E v \in VersionArgs(a), r \in Reviewers :
            Rollback(a, v, r, RollbackNote)
    \/ \E a \in ArticleIds : Export(a)

SpecLib == Init /\ [][NextLib]_vars

\* The HTTP endpoints: generation goes through generate_draft_endpoint.
NextApi ==
    \/ \E t \in Tickets, doc \in CaseDocs, lineage \in LineageOutcomes :
            GenerateDraftEndpoint(t, doc, lineage)
    \/ \E d \in DraftIds, r \in Reviewers, n \in Notes : Approve(d, r, n)
    \/ \E d \in DraftIds, r \in Reviewers, n \in Notes : Reject(d, r, n)
    \/ \E d \in DraftIds, r \in Reviewers, n \in Notes, a \in PublishArgs : Publish(d, r, n, a)
    \/ \E a \in ArticleIds : \E v \in VersionArgs(a), r \in Reviewers :
            Rollback(a, v, r, RollbackNote)

SpecApi == Init /\ [][NextApi]_vars

\* ------------------------------------------------- concurrent generation
\* The review workflow (approve, reject, publish) under concurrent generation
\* requests: generate_kb_draft in two steps, as two sessions interleave them: the
\* SELECT of supersede_other_drafts, whose rows the loop changes in the
\* session only, and the flush and commit that write them.
GenerateQuery(ticket_id, doc) ==
    /\ UnusedDraftIds # {}
    /\ Cardinality(pending) < MaxPending
    /\ LET draft_id == FreshDraftId
           rows == SupersedeQuery(drafts, ticket_id, draft_id, {"draft", "approved"})
       IN pending' = pending \cup
            {[draft_id |-> draft_id, ticket_id |-> ticket_id, doc |-> doc,
              loaded |-> [d \in rows |-> drafts[d]]]}
    /\ UNCHANGED <<drafts, articles, versions, events, rollbacks, ops, result, evidence, gen, edges>>

\* The UPDATE the flush issues for a row the loop changed: by primary key,
\* setting the columns whose value differs from the loaded one.
FlushSuperseded(row, loaded, reason, reviewer) ==
    [row EXCEPT !.status = "superseded",
                !.reviewer = IF loaded.reviewer # reviewer THEN reviewer ELSE @,
                !.reviewed_at = utcnow,
                !.review_notes = reason]

RECURSIVE FlushEvents(_, _, _)
FlushEvents(rows, evs, p) ==
    IF rows = {} THEN evs
    ELSE LET d == CHOOSE x \in rows : \A y \in rows : x <= y
         IN FlushEvents(rows \ {d},
                        _log_event(evs, "superseded", d, p.loaded[d].ticket_id,
                                   [NoMeta EXCEPT !.kept_draft_id = p.draft_id]),
                        p)

\* Faulty variant: the supersession query is run again at commit, against the
\* rows committed by then.
GenerateCommitRequery(p) ==
    /\ p \in pending
    /\ LET rows == SupersedeQuery(drafts, p.ticket_id, p.draft_id, {"draft", "approved"})
           q == [p EXCEPT !.loaded = [d \in rows |-> drafts[d]]]
           flushed == [d \in DOMAIN drafts |->
                         IF d \in rows
                         THEN FlushSuperseded(drafts[d], q.loaded[d], GenReason, NULL)
                         ELSE drafts[d]]
       IN /\ drafts' = Extend(flushed, p.draft_id, NewDraft(p.ticket_id, p.doc))
          /\ events' = _log_event(FlushEvents(rows, events, q), "draft_generated",
                                  p.draft_id, p.ticket_id, NoMeta)
    /\ pending' = pending \ {p}
    /\ result' = "ok"
    /\ Committed
    /\ UNCHANGED <<articles, versions, rollbacks, evidence, gen, edges>>

GenerateCommit(p) ==
    /\ p \in pending
    /\ LET rows == DOMAIN p.loaded
           flushed == [d \in DOMAIN drafts |->
                         IF d \in rows
                         THEN FlushSuperseded(drafts[d], p.loaded[d], GenReason, NULL)
                         ELSE drafts[d]]
       IN /\ drafts' = Extend(flushed, p.draft_id, NewDraft(p.ticket_id, p.doc))
          /\ events' = _log_event(FlushEvents(rows, events, p), "draft_generated",
                                  p.draft_id, p.ticket_id, NoMeta)
    /\ pending' = pending \ {p}
    /\ result' = "ok"
    /\ Committed
    /\ UNCHANGED <<articles, versions, rollbacks, evidence, gen, edges>>

\* The interleavings are followed up to MaxRaceOps committed calls.
NextRace ==
    /\ ops < MaxRaceOps
    /\ \/ \E t \in Tickets, doc \in CaseDocs : GenerateQuery(t, doc)
       \/ \E p \in pending : GenerateCommit(p)
       \/ \E d \in DraftIds, r \in Reviewers, n \in Notes : Approve(d, r, n)
       \/ \E d \in DraftIds, r \in Reviewers, n \in Notes : Reject(d, r, n)
       \/ \E d \in DraftIds, r \in Reviewers, n \in Notes, a \in PublishArgs : Publish(d, r, n, a)

SpecRace == Init /\ [][NextRace]_vars
\* --------------------------------------------------------- case generation
\* The ticket generation is asked for, with its row of raw_tickets, its
\* conversation, the script its Script_ID names and the placeholder
\* dictionary.
GenTicket == "CS-1"
TicketRow ==
    [Ticket_Number |-> "CS-1", Subject |-> "Login fails", Product |-> "ExampleCo",
     Module |-> "Auth", Category |-> "Login", Script_ID |-> "SCR-1"]
ConversationIds == {"CONV-1"}
ScriptRows == { [Script_ID |-> "SCR-1", tokens |-> {"<TOKEN>"}] }
PlaceholderRows == { [Placeholder |-> "<TOKEN>", Meaning |-> "token value"] }

\* Evidence units the table may hold.  score is the number of the ticket's
\* keywords (login, fails, auth) the snippet contains, tokens the
\* <PLACEHOLDER> tokens it contains, rowid the order of insertion, which
\* stands for the order the store returns rows in that the ORDER BY leaves
\* tied.
EvidenceUniverse ==
    { [evidence_unit_id |-> "EU-D", source_type |-> "TICKET", source_id |-> "CS-1",
       field_name |-> "Description", char_offset_start |-> 0,
       snippet_text |-> "User cannot login.", score |-> 1, tokens |-> {}, rowid |-> 1],
      [evidence_unit_id |-> "EU-R", source_type |-> "TICKET", source_id |-> "CS-1",
       field_name |-> "Resolution", char_offset_start |-> 0,
       snippet_text |-> "Reset token", score |-> 0, tokens |-> {}, rowid |-> 2],
      [evidence_unit_id |-> "EU-V", source_type |-> "TICKET", source_id |-> "CS-1",
       field_name |-> "Resolution", char_offset_start |-> 12,
       snippet_text |-> "Verify login", score |-> 1, tokens |-> {}, rowid |-> 3],
      [evidence_unit_id |-> "EU-C", source_type |-> "TICKET", source_id |-> "CS-1",
       field_name |-> "Root_Cause", char_offset_start |-> 0,
       snippet_text |-> "Expired token", score |-> 0, tokens |-> {}, rowid |-> 4],
      [evidence_unit_id |-> "EU-S", source_type |-> "CONVERSATION", source_id |-> "CONV-1",
       field_name |-> "Issue_Summary", char_offset_start |-> 0,
       snippet_text |-> "Login error", score |-> 1, tokens |-> {}, rowid |-> 5],
      [evidence_unit_id |-> "EU-X", source_type |-> "SCRIPT", source_id |-> "SCR-1",
       field_name |-> "Script_Text_Sanitized", char_offset_start |-> 0,
       snippet_text |-> "Run <TOKEN>", score |-> 0, tokens |-> {"<TOKEN>"}, rowid |-> 6],
      [evidence_unit_id |-> "EU-P", source_type |-> "PLACEHOLDER", source_id |-> "<TOKEN>",
       field_name |-> "Meaning", char_offset_start |-> 0,
       snippet_text |-> "token value", score |-> 0, tokens |-> {}, rowid |-> 7] }

\* An id no evidence unit has.
FakeId == "EU-FAKE"

SECTION_RULES ==
    [problem |-> [source_types |-> {"TICKET"}, field_names |-> {"Description"}],
     symptoms |-> [source_types |-> {"CONVERSATION", "TICKET"},
                   field_names |-> {"Issue_Summary", "Description"}],
     root_cause |-> [source_types |-> {"TICKET"}, field_names |-> {"Root_Cause"}],
     resolution_steps |-> [source_types |-> {"TICKET"}, field_names |-> {"Resolution"}],
     verification_steps |-> [source_types |-> {"TICKET"}, field_names |-> {"Resolution"}],
     placeholders_needed |-> [source_types |-> {"SCRIPT", "PLACEHOLDER"},
                              field_names |-> {"Script_Text_Sanitized", "Meaning"}]]

\* limit of _select_candidates_for_section and of _fallback_ticket_candidates
SelectLimit == 20
FallbackLimit == 10

\* _collect_source_ids
_collect_source_ids(ticket_id) ==
    {ticket_id} \cup ConversationIds \cup { s.Script_ID : s \in ScriptRows }

\* _collect_placeholder_tokens
_collect_placeholder_tokens == { p.Placeholder : p \in PlaceholderRows }

\* LIMIT n
Limit(seq, n) == IF Len(seq) <= n THEN seq ELSE SubSeq(seq, 1, n)

Range(seq) == { seq[i] : i \in 1 .. Len(seq) }

\* _dedupe_ids: the first occurrence of every id, in order
RECURSIVE _dedupe_ids(_)
_dedupe_ids(ids) ==
    IF ids = << >> THEN << >>
    ELSE LET init == _dedupe_ids(SubSeq(ids, 1, Len(ids) - 1))
             last == ids[Len(ids)]
         IN IF last \in Range(init) THEN init ELSE Append(init, last)

\* [c.evidence_unit_id for c in candidates]
RECURSIVE IdsOf(_)
IdsOf(units) ==
    IF units = << >> THEN << >>
    ELSE <<Head(units).evidence_unit_id>> \o IdsOf(Tail(units))

\* ORDER BY score DESC, char_offset_start ASC
ByScoreThenOffset(u, v) ==
    \/ u.score > v.score
    \/ u.score = v.score /\ u.char_offset_start < v.char_offset_start
    \/ u.score = v.score /\ u.char_offset_start = v.char_offset_start /\ u.rowid < v.rowid

\* ORDER BY char_offset_start ASC
ByOffset(u, v) ==
    \/ u.char_offset_start < v.char_offset_start
    \/ u.char_offset_start = v.char_offset_start /\ u.rowid < v.rowid

\* .all() without ORDER BY: the order of insertion
ByRowid(u, v) == u.rowid < v.rowid

\* The rows of a query in the order of its ORDER BY: the sequence of the
\* units of S in which u comes before v when the order puts it first.
OrderByScoreThenOffset(S) ==
    [i \in 1 .. Cardinality(S) |->
        CHOOSE u \in S : Cardinality({ v \in S : ByScoreThenOffset(v, u) }) = i - 1]

OrderByOffset(S) ==
    [i \in 1 .. Cardinality(S) |->
        CHOOSE u \in S : Cardinality({ v \in S : ByOffset(v, u) }) = i - 1]

OrderByRowid(S) ==
    [i \in 1 .. Cardinality(S) |->
        CHOOSE u \in S : Cardinality({ v \in S : ByRowid(v, u) }) = i - 1]

_select_candidates_for_section(session, section_name, source_ids) ==
    LET rules == SECTION_RULES[section_name]
        rows == { u \in session : /\ u.source_id \in source_ids
                                /\ u.source_type \in rules.source_types
                                /\ u.field_name \in rules.field_names }
    IN Limit(OrderByScoreThenOffset(rows), SelectLimit)

_fallback_ticket_candidates(session, source_ids, exclude_ids) ==
    IF source_ids = {} THEN << >>
    ELSE LET rows == { u \in session : u.source_id \in source_ids /\ u.source_type = "TICKET" }
             limited == Limit(OrderByOffset(rows), FallbackLimit)
             NotExcluded(u) == u.evidence_unit_id \notin exclude_ids
         IN SelectSeq(limited, NotExcluded)

\* " ".join(snippets)
RECURSIVE JoinSnippets(_)
JoinSnippets(units) ==
    IF units = << >> THEN ""
    ELSE IF Len(units) = 1 THEN units[1].snippet_text
    ELSE units[1].snippet_text \o " " \o JoinSnippets(Tail(units))

\* What the collaborator answers to one section prompt: the call raises
\* (timeout, API error, malformed JSON), or the JSON carries a text and the
\* ids of the first candidate, or a text and every id it was ever shown or
\* invented.
SectionReplies == {"raises", "first", "every"}

\* Further answers: a text with ids of which none is a candidate, and ids of
\* candidates without a text.
SectionAnswers == SectionReplies \cup {"foreign", "no_text"}

SectionReply(reply, candidates) ==
    IF reply = "raises" THEN [raised |-> TRUE, text |-> "", evidence_unit_ids |-> << >>]
    ELSE IF reply = "first"
    THEN [raised |-> FALSE, text |-> "Synthesised text.",
          evidence_unit_ids |-> <<candidates[1].evidence_unit_id>>]
    ELSE IF reply = "every"
    THEN [raised |-> FALSE, text |-> "Synthesised text.",
          evidence_unit_ids |->
              <<FakeId>> \o IdsOf(OrderByOffset(EvidenceUniverse)) \o IdsOf(candidates)]
    ELSE IF reply = "foreign"
    THEN [raised |-> FALSE, text |-> "Synthesised text.",
          evidence_unit_ids |->
              <<FakeId>> \o IdsOf(OrderByOffset(EvidenceUniverse \ Range(candidates)))]
    ELSE [raised |-> FALSE, text |-> "", evidence_unit_ids |-> IdsOf(candidates)]

\* Faulty variant: one returned id that is not a candidate discards the whole
\* answer.
SynthesizeDiscardOnForeign(reply, section_name, candidates) ==
    LET data == SectionReply(reply, candidates)
        IsCandidate(eid) == eid \in Range(IdsOf(candidates))
        selected_ids == _dedupe_ids(SelectSeq(data.evidence_unit_ids, IsCandidate))
    IN IF \/ data.raised \/ data.text = "" \/ selected_ids = << >>
          \/ \E i \in 1 .. Len(data.evidence_unit_ids) : ~IsCandidate(data.evidence_unit_ids[i])
       THEN [text |-> "", selected_ids |-> << >>]
       ELSE [text |-> data.text, selected_ids |-> selected_ids]

\* Faulty variant: the ids the collaborator returns are taken as they come.
SynthesizeUnfiltered(reply, section_name, candidates) ==
    LET data == SectionReply(reply, candidates)
    IN IF data.raised \/ data.text = "" \/ data.evidence_unit_ids = << >>
       THEN [text |-> "", selected_ids |-> << >>]
       ELSE [text |-> data.text, selected_ids |-> _dedupe_ids(data.evidence_unit_ids)]

_synthesize_section_openai(reply, section_name, candidates) ==
    LET data == SectionReply(reply, candidates)
        IsCandidate(eid) == eid \in Range(IdsOf(candidates))
        selected_ids == _dedupe_ids(SelectSeq(data.evidence_unit_ids, IsCandidate))
    IN IF data.raised \/ data.text = "" \/ selected_ids = << >>
       THEN [text |-> "", selected_ids |-> << >>]
       ELSE [text |-> data.text, selected_ids |-> selected_ids]

_synthesize_section_deterministic(section_name, candidates) ==
    [text |-> JoinSnippets(candidates), selected_ids |-> _dedupe_ids(IdsOf(candidates))]

\* The candidates of a section: those its rules select that no earlier
\* section used, or, when there are none, the fallback's
SectionCandidates(session, section_name, source_ids, used_ids) ==
    LET NotUsed(c) == c.evidence_unit_id \notin used_ids
        selected == SelectSeq(_select_candidates_for_section(session, section_name, source_ids),
                              NotUsed)
    IN IF selected = << >>
       THEN _fallback_ticket_candidates(session, source_ids, used_ids)
       ELSE selected

\* if not text: text, selected_ids = _synthesize_section_deterministic(...)
OrDeterministic(ai, section_name, candidates) ==
    IF ai.text = "" THEN _synthesize_section_deterministic(section_name, candidates) ELSE ai

\* The text and ids of a section synthesised from its candidates.
SynthesizeSection(section_name, candidates, openai_client, reply) ==
    OrDeterministic(IF openai_client /\ candidates # << >>
                    THEN _synthesize_section_openai(reply, section_name, candidates)
                    ELSE [text |-> "", selected_ids |-> << >>],
                    section_name, candidates)

\* used_ids.update(selected_ids); return text, selected_ids
SectionResult(out, used_ids) ==
    [text |-> out.text, selected_ids |-> out.selected_ids,
     used_ids |-> used_ids \cup Range(out.selected_ids)]

\* Faulty variant: the candidates are not filtered by the ids already used.
BuildTextSectionNoFilter(session, section_name, source_ids, used_ids, openai_client, reply) ==
    SectionResult(SynthesizeSection(section_name,
                                    _select_candidates_for_section(session, section_name,
                                                                   source_ids),
                                    openai_client, reply),
                  used_ids)

\* _build_text_section; used_ids is the set after used_ids.update(selected_ids)
_build_text_section(session, section_name, source_ids, used_ids, openai_client, reply) ==
    SectionResult(SynthesizeSection(section_name,
                                    SectionCandidates(session, section_name, source_ids,
                                                      used_ids),
                                    openai_client, reply),
                  used_ids)

\* _steps_from_evidence (ingestion stores snippets stripped and non-empty)
RECURSIVE _steps_from_evidence(_)
_steps_from_evidence(units) ==
    IF units = << >> THEN << >>
    ELSE (IF Head(units).snippet_text = "" THEN << >>
          ELSE <<[text |-> Head(units).snippet_text,
                  evidence_unit_ids |-> <<Head(units).evidence_unit_id>>]>>)
         \o _steps_from_evidence(Tail(units))

\* [eid for step in steps for eid in step.evidence_unit_ids]
RECURSIVE StepIds(_)
StepIds(steps) ==
    IF steps = << >> THEN << >>
    ELSE Head(steps).evidence_unit_ids \o StepIds(Tail(steps))

\* steps, selected_ids and the updated used_ids of _build_resolution_steps
ResolutionResult(steps, used_ids) ==
    [steps |-> steps, selected_ids |-> _dedupe_ids(StepIds(steps)),
     used_ids |-> used_ids \cup Range(StepIds(steps))]

_build_resolution_steps(session, source_ids, used_ids) ==
    ResolutionResult(_steps_from_evidence(SectionCandidates(session, "resolution_steps",
                                                            source_ids, used_ids)),
                     used_ids)

\* re.match(r"^(verify|confirm|validate)\b", text, re.I) on the step texts
\* the evidence holds
VerificationTexts == {"Verify login"}

_filter_verification_steps(steps) ==
    LET IsVerification(step) == step.text \in VerificationTexts
    IN SelectSeq(steps, IsVerification)

\* The tokens re.findall(r"<[A-Z0-9_]+>", text) finds in the script rows of
\* the ticket, in the order the loop visits them.
ScriptTokens == <<"<TOKEN>">>

\* placeholder_map.get(token, "")
PlaceholderMeaning(token) ==
    IF \E p \in PlaceholderRows : p.Placeholder = token
    THEN (CHOOSE p \in PlaceholderRows : p.Placeholder = token).Meaning
    ELSE ""

\* The body of the loop over the tokens of _build_placeholders_needed:
\* found so far, and used_ids as updated so far.
RECURSIVE PlaceholderLoop(_, _, _, _)
PlaceholderLoop(session, tokens, found, used_ids) ==
    IF tokens = << >> THEN [found |-> found, used_ids |-> used_ids]
    ELSE LET token == Head(tokens)
             script_ids == { s.Script_ID : s \in ScriptRows }
             script_evidence_units ==
                 OrderByRowid({ u \in session : /\ u.source_id \in script_ids
                                                /\ u.source_type = "SCRIPT"
                                                /\ u.field_name = "Script_Text_Sanitized" })
             placeholder_rows ==
                 { u \in session : /\ u.source_id = token
                                   /\ token \in _collect_placeholder_tokens
                                   /\ u.source_type = "PLACEHOLDER" }
             Cites(eu) == token \in eu.tokens /\ eu.evidence_unit_id \notin used_ids
             from_scripts == IdsOf(SelectSeq(script_evidence_units, Cites))
             from_dictionary ==
                 IF placeholder_rows = {} THEN << >>
                 ELSE LET placeholder_eu ==
                              CHOOSE u \in placeholder_rows :
                                  \A v \in placeholder_rows : v.rowid <= u.rowid
                      IN IF placeholder_eu.evidence_unit_id \notin used_ids
                         THEN <<placeholder_eu.evidence_unit_id>> ELSE << >>
             evidence_ids == _dedupe_ids(from_scripts \o from_dictionary)
             need == [placeholder |-> token, meaning |-> PlaceholderMeaning(token),
                      evidence_unit_ids |-> evidence_ids]
         IN PlaceholderLoop(session, Tail(tokens), Append(found, need),
                            used_ids \cup Range(evidence_ids))

_build_placeholders_needed(session, used_ids) ==
    LET r == PlaceholderLoop(session, ScriptTokens, << >>, used_ids)
    IN [placeholders_needed |-> r.found,
        selected_ids |-> _dedupe_ids(StepIds(r.found)),
        used_ids |-> r.used_ids]

\* One entry of evidence_sources, f"{label}: {', '.join(ids)}", kept as the
\* label and the ids a reader splitting it at ":" and "," gets back; an entry
\* without ":" has the label NULL.
EvidenceSource(label, ids) == [label |-> label, ids |-> ids]

_build_evidence_sources(problem_ids, symptom_ids, root_cause_ids, resolution_steps, verification_steps, placeholders_needed) ==
    (IF _dedupe_ids(problem_ids) # << >>
     THEN <<EvidenceSource("problem", _dedupe_ids(problem_ids))>> ELSE << >>)
    \o (IF _dedupe_ids(symptom_ids) # << >>
        THEN <<EvidenceSource("symptoms", _dedupe_ids(symptom_ids))>> ELSE << >>)
    \o (IF _dedupe_ids(root_cause_ids) # << >>
        THEN <<EvidenceSource("root_cause", _dedupe_ids(root_cause_ids))>> ELSE << >>)
    \o (IF resolution_steps # << >>
        THEN <<EvidenceSource("resolution_steps", _dedupe_ids(StepIds(resolution_steps)))>>
        ELSE << >>)
    \o (IF verification_steps # << >>
        THEN <<EvidenceSource("verification_steps", _dedupe_ids(StepIds(verification_steps)))>>
        ELSE << >>)
    \o (IF placeholders_needed # << >>
        THEN <<EvidenceSource("placeholders_needed", _dedupe_ids(StepIds(placeholders_needed)))>>
        ELSE << >>)

\* str(ticket.get(key) or default).strip() or default
TicketField(key, default) == IF TicketRow[key] = "" THEN default ELSE TicketRow[key]

\* CaseJSON(ticket_id=..., ..., evidence_sources=...) of build_case_json_rlm,
\* from what the section builders returned
AssembleCaseJson(ticket_id, problem, symptoms, root_cause, resolution_steps, placeholders_needed) ==
    [ticket_id |-> ticket_id,
     title |-> TicketField("Subject", "Untitled"),
     module |-> TicketField("Module", "N/A"),
     problem |-> IF problem.text = "" THEN "N/A" ELSE problem.text,
     symptoms |-> IF symptoms.text = "" THEN << >> ELSE <<symptoms.text>>,
     root_cause |-> IF root_cause.text = "" THEN NULL ELSE root_cause.text,
     resolution_steps |-> resolution_steps,
     verification_steps |-> _filter_verification_steps(resolution_steps),
     placeholders_needed |-> placeholders_needed,
     evidence_sources |->
         _build_evidence_sources(problem.selected_ids, symptoms.selected_ids,
                                 root_cause.selected_ids, resolution_steps,
                                 _filter_verification_steps(resolution_steps),
                                 placeholders_needed)]

\* Faulty variant: every section starts from an empty set of used ids.
BuildCaseJsonRlmNoThreading(session, ticket_id, openai_client, replies) ==
    LET source_ids == _collect_source_ids(ticket_id)
    IN AssembleCaseJson(
           ticket_id,
           _build_text_section(session, "problem", source_ids, {}, openai_client,
                               replies.problem),
           _build_text_section(session, "symptoms", source_ids, {}, openai_client,
                               replies.symptoms),
           _build_text_section(session, "root_cause", source_ids, {}, openai_client,
                               replies.root_cause),
           _build_resolution_steps(session, source_ids, {}).steps,
           _build_placeholders_needed(session, {}).placeholders_needed)

\* build_case_json_rlm: the case document
build_case_json_rlm(session, ticket_id, openai_client, replies) ==
    LET source_ids == _collect_source_ids(ticket_id)
        problem == _build_text_section(session, "problem", source_ids, {},
                                       openai_client, replies.problem)
        symptoms == _build_text_section(session, "symptoms", source_ids, problem.used_ids,
                                        openai_client, replies.symptoms)
        root_cause == _build_text_section(session, "root_cause", source_ids,
                                          symptoms.used_ids, openai_client,
                                          replies.root_cause)
        resolution == _build_resolution_steps(session, source_ids, root_cause.used_ids)
        placeholders == _build_placeholders_needed(session, resolution.used_ids)
    IN AssembleCaseJson(ticket_id, problem, symptoms, root_cause, resolution.steps,
                        placeholders.placeholders_needed)

\* build_case_bundle: the evidence units of the ticket's sources and every
\* PLACEHOLDER unit
build_case_bundle(session, ticket_id) ==
    { u \in session : u.source_id \in _collect_source_ids(ticket_id) }
        \cup { u \in session : u.source_type = "PLACEHOLDER" }

\* _group_evidence_by_field(...).get(field_name, []): sorted by
\* (source_id, char_offset_start); the sources of one field here are one
\* source, so the offset decides
EvidenceByField(evidence_units, field_name) ==
    OrderByOffset({ u \in evidence_units : u.field_name = field_name })

\* _build_placeholders_needed of generator.py
PlaceholdersOfBundle(evidence_units) ==
    [i \in 1 .. Len(ScriptTokens) |->
        LET token == ScriptTokens[i]
            InScript(eu) == token \in eu.tokens
            script_evidence ==
                OrderByRowid({ eu \in evidence_units : eu.field_name = "Script_Text_Sanitized" })
            placeholder_evidence ==
                { eu \in evidence_units : eu.source_type = "PLACEHOLDER" /\ eu.source_id = token }
        IN [placeholder |-> token, meaning |-> PlaceholderMeaning(token),
            evidence_unit_ids |->
                IdsOf(SelectSeq(script_evidence, InScript))
                \o (IF placeholder_evidence = {} THEN << >>
                    ELSE <<(CHOOSE u \in placeholder_evidence :
                               \A v \in placeholder_evidence : v.rowid <= u.rowid
                           ).evidence_unit_id>>)]]

build_case_json_deterministic(evidence_units) ==
    LET description == EvidenceByField(evidence_units, "Description")
        issue_summary == EvidenceByField(evidence_units, "Issue_Summary")
        root_cause == EvidenceByField(evidence_units, "Root_Cause")
        resolution_steps == _steps_from_evidence(EvidenceByField(evidence_units, "Resolution"))
        verification_steps == _filter_verification_steps(resolution_steps)
        placeholders_needed == PlaceholdersOfBundle(evidence_units)
    IN [ticket_id |-> TicketRow.Ticket_Number,
        title |-> TicketField("Subject", "Untitled"),
        module |-> TicketField("Module", "N/A"),
        problem |-> IF JoinSnippets(description) = "" THEN "N/A" ELSE JoinSnippets(description),
        symptoms |-> IF JoinSnippets(issue_summary) = "" THEN << >>
                     ELSE <<JoinSnippets(issue_summary)>>,
        root_cause |-> IF JoinSnippets(root_cause) = "" THEN NULL ELSE JoinSnippets(root_cause),
        resolution_steps |-> resolution_steps,
        verification_steps |-> verification_steps,
        placeholders_needed |-> placeholders_needed,
        evidence_sources |->
            _build_evidence_sources(IdsOf(description), IdsOf(issue_summary), IdsOf(root_cause),
                                    resolution_steps, verification_steps, placeholders_needed)]

\* What the collaborator answers to the whole-document prompt of
\* build_case_json_llm: the call raises (timeout, API error); the content is
\* not JSON or not a CaseJSON; a document whose step cites an id that was not
\* in the list; a document whose steps cite listed ids and whose
\* evidence_sources names an id that was not in the list; a document for
\* another ticket; a document without evidence_sources.
LlmReplies == {"raises", "malformed", "unknown_step_id", "fake_sources", "other_ticket",
               "no_sources"}

LlmDocument(reply, evidence_units) ==
    LET listed == IdsOf(OrderByRowid(evidence_units))
        steps == IF listed = << >> THEN << >>
                 ELSE <<[text |-> "Do it.", evidence_unit_ids |-> <<listed[1]>>]>>
    IN [ticket_id |-> IF reply = "other_ticket" THEN "CS-2" ELSE TicketRow.Ticket_Number,
        title |-> "Generated title",
        module |-> TicketRow.Module,
        problem |-> "Generated problem.",
        symptoms |-> << >>,
        root_cause |-> NULL,
        resolution_steps |->
            IF reply = "unknown_step_id"
            THEN <<[text |-> "Do it.", evidence_unit_ids |-> <<FakeId>>]>>
            ELSE steps,
        verification_steps |-> << >>,
        placeholders_needed |-> << >>,
        evidence_sources |->
            IF reply = "fake_sources"
            THEN <<EvidenceSource("problem", <<FakeId>>)>>
                 \o (IF listed = << >> THEN << >>
                     ELSE <<EvidenceSource("resolution_steps", <<listed[1]>>)>>)
            ELSE IF reply = "no_sources" THEN << >>
            ELSE IF listed = << >> THEN << >>
            ELSE <<EvidenceSource("problem", <<listed[1]>>)>>]

_evidence_ids_subset(case_json, known_ids) ==
    /\ Range(StepIds(case_json.resolution_steps \o case_json.verification_steps)) \subseteq known_ids
    /\ Range(StepIds(case_json.placeholders_needed)) \subseteq known_ids

\* build_case_json_llm: raised is TRUE when the exception of the
\* collaborator's call leaves the function
build_case_json_llm(evidence_units, api_key, reply) ==
    IF ~api_key
    THEN [raised |-> FALSE, case_json |-> build_case_json_deterministic(evidence_units)]
    ELSE IF reply = "raises"
    THEN [raised |-> TRUE, case_json |-> NULL]
    ELSE IF reply = "malformed"
    THEN [raised |-> FALSE, case_json |-> build_case_json_deterministic(evidence_units)]
    ELSE LET case_json == LlmDocument(reply, evidence_units)
             known_ids == { eu.evidence_unit_id : eu \in evidence_units }
         IN IF ~_evidence_ids_subset(case_json, known_ids)
            THEN [raised |-> FALSE,
                  case_json |-> build_case_json_deterministic(evidence_units)]
            ELSE IF case_json.evidence_sources = << >>
            THEN [raised |-> FALSE,
                  case_json |->
                      [case_json EXCEPT !.evidence_sources =
                          _build_evidence_sources(<< >>, << >>, << >>,
                                                  case_json.resolution_steps,
                                                  case_json.verification_steps,
                                                  case_json.placeholders_needed)]]
            ELSE [raised |-> FALSE, case_json |-> case_json]

\* _parse_evidence_sources(...).get(section, []): the ids of the last entry
\* with that label
ParsedSourceIds(evidence_sources, section) ==
    LET hits == { i \in 1 .. Len(evidence_sources) : evidence_sources[i].label = section }
    IN IF hits = {} THEN << >>
       ELSE evidence_sources[CHOOSE i \in hits : \A j \in hits : j <= i].ids

\* The sections of ids_by_section, in the order the dictionary is built.
VerifierSections ==
    <<"problem", "symptoms", "root_cause", "resolution_steps", "verification_steps",
      "placeholders_needed">>

\* _collect_section_ids of rlm_verifier.py
_collect_section_ids(case_json) ==
    [problem |-> ParsedSourceIds(case_json.evidence_sources, "problem"),
     symptoms |-> ParsedSourceIds(case_json.evidence_sources, "symptoms"),
     root_cause |-> ParsedSourceIds(case_json.evidence_sources, "root_cause"),
     resolution_steps |-> StepIds(case_json.resolution_steps),
     verification_steps |-> StepIds(case_json.verification_steps),
     placeholders_needed |-> StepIds(case_json.placeholders_needed)]

\* The (section, id) pairs in the order _dedupe_across_sections visits them.
RECURSIVE SectionPairs(_, _)
SectionPairs(ids_by_section, sections) ==
    IF sections = << >> THEN << >>
    ELSE [i \in 1 .. Len(ids_by_section[Head(sections)]) |->
             [section |-> Head(sections), eid |-> ids_by_section[Head(sections)][i]]]
         \o SectionPairs(ids_by_section, Tail(sections))

_dedupe_across_sections(ids_by_section) ==
    LET pairs == SectionPairs(ids_by_section, VerifierSections)
    IN \A j \in 1 .. Len(pairs) :
           LET earlier == { i \in 1 .. j - 1 : pairs[i].eid = pairs[j].eid }
           IN earlier = {} \/
              LET prev == pairs[CHOOSE i \in earlier : \A k \in earlier : i <= k].section
              IN <<prev, pairs[j].section>> \in
                     { <<"resolution_steps", "verification_steps">>,
                       <<"verification_steps", "resolution_steps">> }

\* Faulty variant: no message when no resolution step cites an id.
VerifyErrorsWithoutStepsAnchor(case_json, ids_by_section, existing_ids) ==
    (IF case_json.ticket_id = "" \/ case_json.title = "" \/ case_json.problem = ""
     THEN {"Missing required fields: ticket_id, title, or problem."} ELSE {})
    \cup (IF \E i \in 1 .. Len(case_json.resolution_steps) :
                 case_json.resolution_steps[i].text = ""
          THEN {"resolution_steps contains empty step.text."} ELSE {})
    \cup { "Duplicate evidence_unit_ids in section: " \o s : s \in
             { t \in Range(VerifierSections) :
                  Len(ids_by_section[t]) # Cardinality(Range(ids_by_section[t])) } }
    \cup (IF _dedupe_across_sections(ids_by_section) THEN {}
          ELSE {"evidence_unit_ids are reused across sections."})
    \cup (IF \E s \in Range(VerifierSections) : ~(Range(ids_by_section[s]) \subseteq existing_ids)
          THEN {"Missing evidence_unit_ids"} ELSE {})
    \cup (IF case_json.problem # "" /\ ids_by_section.problem = << >>
          THEN {"problem section must cite at least one evidence id."} ELSE {})
    \cup (IF case_json.symptoms # << >> /\ ids_by_section.symptoms = << >>
          THEN {"symptoms section must cite at least one evidence id."} ELSE {})
    \cup (IF case_json.root_cause # NULL /\ ids_by_section.root_cause = << >>
          THEN {"root_cause section must cite at least one evidence id."} ELSE {})

\* The messages verify_case_json appends to errors, as a set; the message
\* that lists the missing ids stands for them all.
_verify_errors(case_json, ids_by_section, existing_ids) ==
    (IF case_json.ticket_id = "" \/ case_json.title = "" \/ case_json.problem = ""
     THEN {"Missing required fields: ticket_id, title, or problem."} ELSE {})
    \cup (IF \E i \in 1 .. Len(case_json.resolution_steps) :
                 case_json.resolution_steps[i].text = ""
          THEN {"resolution_steps contains empty step.text."} ELSE {})
    \cup { "Duplicate evidence_unit_ids in section: " \o s : s \in
             { t \in Range(VerifierSections) :
                  Len(ids_by_section[t]) # Cardinality(Range(ids_by_section[t])) } }
    \cup (IF _dedupe_across_sections(ids_by_section) THEN {}
          ELSE {"evidence_unit_ids are reused across sections."})
    \cup (IF \E s \in Range(VerifierSections) : ~(Range(ids_by_section[s]) \subseteq existing_ids)
          THEN {"Missing evidence_unit_ids"} ELSE {})
    \cup (IF case_json.problem # "" /\ ids_by_section.problem = << >>
          THEN {"problem section must cite at least one evidence id."} ELSE {})
    \cup (IF case_json.symptoms # << >> /\ ids_by_section.symptoms = << >>
          THEN {"symptoms section must cite at least one evidence id."} ELSE {})
    \cup (IF case_json.root_cause # NULL /\ ids_by_section.root_cause = << >>
          THEN {"root_cause section must cite at least one evidence id."} ELSE {})
    \cup (IF ids_by_section.resolution_steps = << >>
          THEN {"resolution_steps must cite at least one evidence id overall."} ELSE {})

\* verify_case_json: ok, the errors and the four checks
verify_case_json(case_json, session) ==
    LET ids_by_section == _collect_section_ids(case_json)
        existing_ids == { u.evidence_unit_id : u \in session }
        all_ids == UNION { Range(ids_by_section[s]) : s \in Range(VerifierSections) }
        required_fields ==
            /\ case_json.ticket_id # "" /\ case_json.title # "" /\ case_json.problem # ""
            /\ \A i \in 1 .. Len(case_json.resolution_steps) :
                   case_json.resolution_steps[i].text # ""
        ids_deduped ==
            /\ \A s \in Range(VerifierSections) :
                   Len(ids_by_section[s]) = Cardinality(Range(ids_by_section[s]))
            /\ _dedupe_across_sections(ids_by_section)
        all_ids_exist == all_ids \subseteq existing_ids
        section_anchors ==
            /\ case_json.problem # "" => ids_by_section.problem # << >>
            /\ case_json.symptoms # << >> => ids_by_section.symptoms # << >>
            /\ case_json.root_cause # NULL => ids_by_section.root_cause # << >>
            /\ ids_by_section.resolution_steps # << >>
    IN [ok |-> _verify_errors(case_json, ids_by_section, existing_ids) = {},
        errors |-> _verify_errors(case_json, ids_by_section, existing_ids),
        checks |-> [all_ids_exist |-> all_ids_exist, ids_deduped |-> ids_deduped,
                    required_fields |-> required_fields,
                    section_anchors |-> section_anchors]]

\* The labels of section_map in the order _collect_evidence_by_section
\* inserts them for the documents above.
LineageSections ==
    <<"resolution_steps", "verification_steps", "placeholders_needed", "problem",
      "symptoms", "root_cause">>

\* section_map[label] of _collect_evidence_by_section: the ids of the steps
\* or placeholders of the section, then those of every evidence_sources
\* entry with that label, deduplicated in order
RECURSIVE SourceIdsOf(_, _)
SourceIdsOf(evidence_sources, label) ==
    IF evidence_sources = << >> THEN << >>
    ELSE (IF Head(evidence_sources).label = label THEN Head(evidence_sources).ids ELSE << >>)
         \o SourceIdsOf(Tail(evidence_sources), label)

_collect_evidence_by_section(data) ==
    [label \in Range(LineageSections) |->
        _dedupe_ids(
            (IF label = "resolution_steps" THEN StepIds(data.resolution_steps)
             ELSE IF label = "verification_steps" THEN StepIds(data.verification_steps)
             ELSE IF label = "placeholders_needed" THEN StepIds(data.placeholders_needed)
             ELSE << >>)
            \o SourceIdsOf(data.evidence_sources, label))]

\* Faulty variant: every edge is CREATED_FROM.
RelationshipAlwaysCreatedFrom(unit) == "CREATED_FROM"

\* "REFERENCES" if unit.source_type in {"SCRIPT", "PLACEHOLDER"} else "CREATED_FROM"
Relationship(unit) ==
    IF unit.source_type \in {"SCRIPT", "PLACEHOLDER"} THEN "REFERENCES" ELSE "CREATED_FROM"

\* f"EDGE-{draft.draft_id}-{evidence_unit_id}-{section_label}"
EdgeId(draft_id, evidence_unit_id, section_label) ==
    "EDGE-" \o ToString(draft_id) \o "-" \o evidence_unit_id \o "-" \o section_label

\* Faulty variant: an id without an evidence unit gets an edge too.
EdgesOfSectionUnresolved(draft_id, section_label, evidence_ids, session) ==
    [i \in 1 .. Len(evidence_ids) |->
        [edge_id |-> EdgeId(draft_id, evidence_ids[i], section_label),
         draft_id |-> draft_id, evidence_unit_id |-> evidence_ids[i],
         relationship |-> "CREATED_FROM", section_label |-> section_label]]

\* The inner loop of write_lineage_edges: the edges of one section, for the
\* ids not seen before in the section whose unit unit_map holds
RECURSIVE EdgesOfSection(_, _, _, _)
EdgesOfSection(draft_id, section_label, evidence_ids, session) ==
    IF evidence_ids = << >> THEN << >>
    ELSE LET n == Len(evidence_ids)
             evidence_unit_id == evidence_ids[n]
             before == SubSeq(evidence_ids, 1, n - 1)
             units == { u \in session : u.evidence_unit_id = evidence_unit_id }
         IN EdgesOfSection(draft_id, section_label, before, session)
            \o (IF evidence_unit_id \in Range(before) \/ units = {} THEN << >>
                ELSE <<[edge_id |-> EdgeId(draft_id, evidence_unit_id, section_label),
                        draft_id |-> draft_id,
                        evidence_unit_id |-> evidence_unit_id,
                        relationship |-> Relationship(CHOOSE u \in units : TRUE),
                        section_label |-> section_label]>>)

\* The outer loop of write_lineage_edges over the sections of section_map
RECURSIVE EdgesOfSections(_, _, _, _)
EdgesOfSections(draft_id, sections, evidence_by_section, session) ==
    IF sections = << >> THEN << >>
    ELSE EdgesOfSection(draft_id, Head(sections), evidence_by_section[Head(sections)], session)
         \o EdgesOfSections(draft_id, Tail(sections), evidence_by_section, session)

\* The edges write_lineage_edges adds to the session for a draft, in order.
write_lineage_edges(draft_id, case_json, session) ==
    EdgesOfSections(draft_id, LineageSections, _collect_evidence_by_section(case_json), session)

\* Faulty variant: the table has no primary key.
InsertEdgesNoKey(table, rows) == [ok |-> TRUE, edges |-> table \o rows]

\* session.add(edge) for every edge, then session.commit(): edge_id is the
\* primary key of kb_lineage_edges, so the commit fails as a whole when a
\* row repeats an edge_id of the table or of the same batch
InsertEdges(table, rows) ==
    IF \/ \E i, j \in 1 .. Len(rows) : i # j /\ rows[i].edge_id = rows[j].edge_id
       \/ \E i \in 1 .. Len(rows), j \in 1 .. Len(table) : rows[i].edge_id = table[j].edge_id
    THEN [ok |-> FALSE, edges |-> table]
    ELSE [ok |-> TRUE, edges |-> table \o rows]

\* render_kb_draft: the problem statement, the root cause and the footer of
\* the template (the other sections are formatted the same way)
render_kb_draft(case_json) ==
    "## Problem Statement\n" \o (IF case_json.problem = "" THEN "N/A" ELSE case_json.problem)
    \o "\n\n## Root Cause\n"
    \o (IF case_json.root_cause = NULL THEN "N/A" ELSE case_json.root_cause)
    \o "\n\n---\n*Draft generated from Ticket " \o case_json.ticket_id \o "*"

\* What the collaborator answers to the article prompt.
ArticleReplies == {"raises", "article"}

\* _generate_quality_article: NULL when the call fails or the content is short
_generate_quality_article(case_json, reply) ==
    IF reply = "article"
    THEN "Article.\n\n---\n*Generated from Ticket " \o case_json.ticket_id \o "*"
    ELSE NULL

\* The collaborator's answers during one generation.
Replies ==
    [problem : SectionReplies, symptoms : SectionReplies, root_cause : SectionReplies,
     article : ArticleReplies, document : LlmReplies]

GenerationModes == {"rlm", "deterministic"}

\* The tickets raw_tickets holds.
KnownTickets == {TicketRow.Ticket_Number}

\* The body and the tag of the rlm branch of generate_kb_draft, article
\* being what _generate_quality_article returned (NULL when it was not
\* asked or failed)
RlmOutcome(session, case_json, api_key, article) ==
    [error |-> NULL, case_json |-> case_json,
     body_markdown |-> IF article # NULL THEN article ELSE render_kb_draft(case_json),
     generation_mode |-> IF article # NULL THEN "rlm_quality"
                         ELSE IF api_key THEN "rlm_openai" ELSE "rlm",
     verifier |-> verify_case_json(case_json, session)]

\* The rlm branch: the document, then the article when a key is given
RlmBranch(session, case_json, api_key, replies) ==
    RlmOutcome(session, case_json, api_key,
               IF api_key THEN _generate_quality_article(case_json, replies.article)
               ELSE NULL)

\* The other branch, r being what build_case_json_llm did
LlmOutcome(r) ==
    IF r.raised THEN [error |-> "APIError"]
    ELSE [error |-> NULL, case_json |-> r.case_json,
          body_markdown |-> render_kb_draft(r.case_json),
          generation_mode |-> "deterministic",
          verifier |-> NULL]

\* generate_kb_draft up to the point where it writes: the case document,
\* the body and the tag, or the exception that leaves it
GenerationOutcome(session, ticket_id, generation_mode, api_key, replies) ==
    IF ticket_id \notin KnownTickets
    THEN [error |-> "Ticket not found: " \o ticket_id]
    ELSE IF generation_mode = "rlm"
    THEN RlmBranch(session, build_case_json_rlm(session, ticket_id, api_key, replies),
                   api_key, replies)
    ELSE LlmOutcome(build_case_json_llm(build_case_bundle(session, ticket_id), api_key,
                                        replies.document))

\* generate_kb_draft(ticket_id, session, api_key, generation_mode)
GenerateKbDraft(ticket_id, generation_mode, api_key, replies) ==
    /\ gen = NoGen
    /\ UnusedDraftIds # {}
    /\ \E out \in {GenerationOutcome(evidence, ticket_id, generation_mode, api_key, replies)} :
          IF out.error # NULL
          THEN /\ result' = out.error
               /\ gen' = [mode |-> generation_mode, api_key |-> api_key, ticket_id |-> ticket_id,
                          replies |-> replies, draft_id |-> NoDraft, case_json |-> NULL,
                          verifier |-> NULL]
               /\ UNCHANGED <<drafts, events, ops>>
          ELSE \E r \in {supersede_other_drafts(drafts, events, out.case_json.ticket_id,
                                                FreshDraftId, GenReason, NULL,
                                                {"draft", "approved"})} :
                  /\ drafts' = Extend(r.drafts, FreshDraftId,
                                      NewDraft(out.case_json.ticket_id,
                                               [title |-> out.case_json.title,
                                                body |-> out.body_markdown,
                                                module |-> out.case_json.module]))
                  /\ events' = _log_event(r.events, "draft_generated", FreshDraftId,
                                          out.case_json.ticket_id, NoMeta)
                  /\ gen' = [mode |-> generation_mode, api_key |-> api_key,
                             ticket_id |-> ticket_id, replies |-> replies,
                             draft_id |-> FreshDraftId, case_json |-> out.case_json,
                             verifier |-> out.verifier]
                  /\ result' = "ok"
                  /\ Committed
    /\ UNCHANGED <<articles, versions, pending, rollbacks, evidence, edges>>

\* write_lineage_edges(draft, case_json, session) for the draft and the
\* document of the last generation
DeriveLineage ==
    /\ gen # NoGen
    /\ gen.draft_id \in DOMAIN drafts
    /\ \E rows \in {write_lineage_edges(gen.draft_id, gen.case_json, evidence)} :
          IF \A label \in Range(LineageSections) :
                 _collect_evidence_by_section(gen.case_json)[label] = << >>
          THEN /\ result' = "ok"
               /\ UNCHANGED edges
          ELSE \E r \in {InsertEdges(edges, rows)} :
                  /\ result' = IF r.ok THEN "ok" ELSE "IntegrityError"
                  /\ edges' = r.edges
    /\ UNCHANGED <<drafts, articles, versions, events, pending, rollbacks, ops, evidence, gen>>

\* One generation request against any evidence table.
InitGen ==
    /\ drafts = << >>
    /\ articles = << >>
    /\ versions = << >>
    /\ events = [d \in DraftIds \cup {NoDraft} |-> << >>]
    /\ pending = {}
    /\ rollbacks = 0
    /\ ops = 0
    /\ result = "ok"
    /\ evidence \in SUBSET EvidenceUniverse
    /\ gen = NoGen
    /\ edges = << >>

\* The replies that decide a request: the section and article replies when
\* the assembler runs with a collaborator, the document reply when the
\* whole-document builder does.
RepliesOf(generation_mode, api_key) ==
    { r \in Replies :
        /\ (generation_mode = "rlm" /\ api_key) \/
              (r.problem = "raises" /\ r.symptoms = "raises" /\ r.root_cause = "raises"
               /\ r.article = "raises")
        /\ (generation_mode = "deterministic" /\ api_key) \/ r.document = "raises" }

NextGen ==
    \/ \E ticket_id \in Tickets, generation_mode \in GenerationModes, api_key \in BOOLEAN :
          \E replies \in RepliesOf(generation_mode, api_key) :
              GenerateKbDraft(ticket_id, generation_mode, api_key, replies)
    \/ DeriveLineage

SpecGen == InitGen /\ [][NextGen]_vars

\* The lifecycle of a generated draft: generation, then the review and
\* the publication of the draft.
NextLife ==
    \/ \E ticket_id \in Tickets, generation_mode \in GenerationModes, api_key \in BOOLEAN :
          \E replies \in RepliesOf(generation_mode, api_key) :
              GenerateKbDraft(ticket_id, generation_mode, api_key, replies)
    \/ \E d \in DraftIds, r \in Reviewers, n \in Notes : Approve(d, r, n)
    \/ \E d \in DraftIds, r \in Reviewers, n \in Notes, a \in PublishArgs : Publish(d, r, n, a)

SpecLife == InitGen /\ [][NextLife]_vars

\* ------------------------------------------------------ section synthesis
\* _build_text_section called on its own: a store of evidence units, a
\* section, the ids earlier sections used and the collaborator's answer.
MaxBulk == 21

\* The i-th chunk of a long Description of the ticket, as _insert_chunks
\* stores it: one unit per chunk, its offset the chunk's start.
BulkUnit(i) ==
    [evidence_unit_id |-> "EU-B" \o ToString(i), source_type |-> "TICKET",
     source_id |-> "CS-1", field_name |-> "Description", char_offset_start |-> 100 * i,
     snippet_text |-> "chunk", score |-> 0, tokens |-> {}, rowid |-> 7 + i]

BulkStore(m) == { BulkUnit(i) : i \in 1 .. m }

\* The stores a section is built from: any part of the small universe, or
\* the chunks of a long Description.
SectionStores == (SUBSET EvidenceUniverse) \cup { BulkStore(m) : m \in 1 .. MaxBulk }

\* The sets used_ids may be when a section is built: ids of units of the
\* store (the first k chunks, for the chunks of a long Description).
UsedSets(session) ==
    IF session \subseteq EvidenceUniverse
    THEN SUBSET { u.evidence_unit_id : u \in session }
    ELSE { { u.evidence_unit_id : u \in BulkStore(k) } : k \in 0 .. Cardinality(session) }

\* The sections build_case_json_rlm builds with _build_text_section.
TextSections == {"problem", "symptoms", "root_cause"}

\* What the collaborator was sent and returned: asked is whether the call
\* was made (if openai_client and candidates)
SectionCall(openai_client, reply, candidates) ==
    IF openai_client /\ candidates # << >>
    THEN [asked |-> TRUE, answer |-> SectionReply(reply, candidates)]
    ELSE [asked |-> FALSE, answer |-> SectionReply("raises", candidates)]

\* One call of _build_text_section; gen records the call, the candidates it
\* offered and what it returned.
BuildTextSection(section_name, used_ids, openai_client, reply) ==
    /\ gen = NoGen
    /\ \E source_ids \in {_collect_source_ids(GenTicket)} :
       \E candidates \in {SectionCandidates(evidence, section_name, source_ids, used_ids)} :
       \E out \in {_build_text_section(evidence, section_name, source_ids, used_ids,
                                       openai_client, reply)} :
          gen' = [section_name |-> section_name, source_ids |-> source_ids,
                  used_ids |-> used_ids, openai_client |-> openai_client, reply |-> reply,
                  candidates |-> candidates,
                  call |-> SectionCall(openai_client, reply, candidates),
                  text |-> out.text, selected_ids |-> out.selected_ids,
                  used_after |-> out.used_ids]
    /\ UNCHANGED <<drafts, articles, versions, events, pending, rollbacks, ops, result, evidence, edges>>

InitSection ==
    /\ drafts = << >>
    /\ articles = << >>
    /\ versions = << >>
    /\ events = [d \in DraftIds \cup {NoDraft} |-> << >>]
    /\ pending = {}
    /\ rollbacks = 0
    /\ ops = 0
    /\ result = "ok"
    /\ evidence \in SectionStores
    /\ gen = NoGen
    /\ edges = << >>

\* One section is built in a behaviour.
NextSection ==
    /\ gen = NoGen
    /\ \E section_name \in TextSections, used_ids \in UsedSets(evidence), openai_client \in BOOLEAN :
         \E reply \in IF openai_client THEN SectionAnswers ELSE {"raises"} :
            BuildTextSection(section_name, used_ids, openai_client, reply)

SpecSection == InitSection /\ [][NextSection]_vars

\* ------------------------------------------------------------ verification
\* verify_case_json called on its own, on small case documents citing two
\* stored ids and one the store may lack.
Step(text, ids) == [text |-> text, evidence_unit_ids |-> ids]

\* The citation lists of a text section: none, one id, another, one id twice.
CitationLists == { << >>, <<"EU-D">>, <<"EU-C">>, <<"EU-D", "EU-D">> }

\* The lists of steps a document may carry: none, a step that cites nothing,
\* one id, another, the same id twice in one step, and a step without text.
StepLists ==
    { << >>, <<Step("Reset token", << >>)>>, <<Step("Reset token", <<"EU-R">>)>>,
      <<Step("Reset token", <<"EU-D">>)>>, <<Step("Reset token", <<"EU-R", "EU-R">>)>>,
      <<Step("", <<"EU-R">>)>> }

VerificationLists ==
    { << >>, <<Step("Verify login", <<"EU-R">>)>>, <<Step("Verify login", <<"EU-V", "EU-V">>)>> }

PlaceholderLists ==
    { << >>,
      <<[placeholder |-> "<TOKEN>", meaning |-> "token value", evidence_unit_ids |-> <<"EU-C">>]>> }

\* evidence_sources with one entry for every text section that cites an id
SourcesOf(problem_ids, symptom_ids, root_cause_ids) ==
    (IF problem_ids = << >> THEN << >> ELSE <<EvidenceSource("problem", problem_ids)>>)
    \o (IF symptom_ids = << >> THEN << >> ELSE <<EvidenceSource("symptoms", symptom_ids)>>)
    \o (IF root_cause_ids = << >> THEN << >> ELSE <<EvidenceSource("root_cause", root_cause_ids)>>)

\* The entries a document may carry after those of SourcesOf: none, an entry
\* for resolution_steps naming an id no step cites, and a second entry for
\* problem.
ExtraSources ==
    { << >>, <<EvidenceSource("resolution_steps", <<"EU-C">>)>>,
      <<EvidenceSource("problem", <<"EU-R">>)>> }

\* The case document with these sections, of the known ticket.
CaseDocument(problem, symptoms, root_cause, resolution_steps, verification_steps, placeholders_needed, evidence_sources) ==
    [ticket_id |-> GenTicket, title |-> TicketRow.Subject, module |-> TicketRow.Module,
     problem |-> problem, symptoms |-> symptoms, root_cause |-> root_cause,
     resolution_steps |-> resolution_steps, verification_steps |-> verification_steps,
     placeholders_needed |-> placeholders_needed, evidence_sources |-> evidence_sources]

\* The stores the documents are verified against: every unit, and every
\* unit but the Root_Cause one.
VerifierStores == { EvidenceUniverse, { u \in EvidenceUniverse : u.evidence_unit_id # "EU-C" } }

\* One call of verify_case_json; gen records the document and the verdict.
Verify(case_json) ==
    /\ gen = NoGen
    /\ gen' = [case_json |-> case_json, verifier |-> verify_case_json(case_json, evidence)]
    /\ UNCHANGED <<drafts, articles, versions, events, pending, rollbacks, ops, result, evidence, edges>>

InitVerify ==
    /\ drafts = << >>
    /\ articles = << >>
    /\ versions = << >>
    /\ events = [d \in DraftIds \cup {NoDraft} |-> << >>]
    /\ pending = {}
    /\ rollbacks = 0
    /\ ops = 0
    /\ result = "ok"
    /\ evidence \in VerifierStores
    /\ gen = NoGen
    /\ edges = << >>

\* One document is verified in a behaviour.
NextVerify ==
    /\ gen = NoGen
    /\ \E problem \in {"", "User cannot login."}, symptoms \in {<< >>, <<"Login error">>}, root_cause \in {NULL, "Expired token"} :
         \E problem_ids \in CitationLists, symptom_ids \in CitationLists, root_cause_ids \in CitationLists :
            \E resolution_steps \in StepLists, verification_steps \in VerificationLists, placeholders_needed \in PlaceholderLists, extra \in ExtraSources :
               Verify(CaseDocument(problem, symptoms, root_cause, resolution_steps,
                                   verification_steps, placeholders_needed,
                                   SourcesOf(problem_ids, symptom_ids, root_cause_ids) \o extra))

SpecVerify == InitVerify /\ [][NextVerify]_vars

\* ------------------------------------------- supersede_other_drafts, by row
\* supersede_other_drafts as its session sees it.  The query has no ORDER BY,
\* so the loop may visit the rows in any order; a row the loop changed stays
\* changed in the session when _validate_transition raises on a later row.
Orders(S) == { order \in [1 .. Cardinality(S) -> S] : Range(order) = S }

\* for draft in drafts: ... ; return len(drafts).  drafts and events are the
\* rows as the session holds them when the call returns or raises.
RECURSIVE SupersedeRows(_, _, _, _, _, _, _)
SupersedeRows(order, ds, evs, keep_draft_id, reason, reviewer, count) ==
    IF order = << >> THEN [ok |-> TRUE, drafts |-> ds, events |-> evs, count |-> count,
                           error |-> "ok"]
    ELSE IF ~_validate_transition(ds[Head(order)].status, "superseded")
    THEN [ok |-> FALSE, drafts |-> ds, events |-> evs, count |-> count,
          error |-> InvalidTransition(ds[Head(order)].status, "superseded")]
    ELSE SupersedeRows(
           Tail(order),
           [ds EXCEPT ![Head(order)].status = "superseded",
                      ![Head(order)].reviewer = reviewer,
                      ![Head(order)].reviewed_at = utcnow,
                      ![Head(order)].review_notes = reason],
           _log_event(evs, "superseded", Head(order), ds[Head(order)].ticket_id,
                      [NoMeta EXCEPT !.kept_draft_id = keep_draft_id]),
           keep_draft_id, reason, reviewer, count)

\* The status sets a caller may pass: the default and sets that reach a
\* terminal status.
SessionStatusSets == StatusSets \cup { {"draft", "rejected", "superseded"} }

\* One call of supersede_other_drafts in a session of its own.  gen records
\* the call and the rows of the session at its end; the caller commits when
\* the call returned and closes the session when it raised.
SupersedeCall(ticket_id, keep_draft_id, reviewer, statuses, order) ==
    /\ order \in Orders(SupersedeQuery(drafts, ticket_id, keep_draft_id, statuses))
    /\ \E r \in {SupersedeRows(order, drafts, events, keep_draft_id, ManualReason, reviewer, Len(order))} :
          /\ gen' = [ticket_id |-> ticket_id, keep_draft_id |-> keep_draft_id,
                     reviewer |-> reviewer, reason |-> ManualReason, statuses |-> statuses,
                     before |-> drafts, raised |-> ~r.ok, error |-> r.error,
                     count |-> IF r.ok THEN r.count ELSE 0,
                     session_drafts |-> r.drafts, session_events |-> r.events]
          /\ result' = r.error
          /\ IF r.ok THEN drafts' = r.drafts /\ events' = r.events
                     ELSE UNCHANGED <<drafts, events>>
    /\ Committed
    /\ UNCHANGED <<articles, versions, pending, rollbacks, evidence, edges>>

\* The review workflow up to one recorded call.
NextSession ==
    /\ gen = NoGen
    /\ \/ \E t \in Tickets, doc \in CaseDocs : Generate(t, doc)
       \/ \E d \in DraftIds, r \in Reviewers, n \in Notes : Approve(d, r, n)
       \/ \E d \in DraftIds, r \in Reviewers, n \in Notes : Reject(d, r, n)
       \/ \E t \in Tickets, k \in DraftIds \cup {NoDraft}, r \in Reviewers, ss \in SessionStatusSets :
             \E order \in Orders(SupersedeQuery(drafts, t, k, ss)) : SupersedeCall(t, k, r, ss, order)

SpecSession == Init /\ [][NextSession]_vars

\* ------------------------------------------------ concurrent publication
\* publish_draft and rollback_version in two steps, as two sessions
\* interleave them: the queries and checks at the head of the function, on
\* the rows committed by then, and the flush and commit that write what the
\* function computed from the rows it loaded.
PendingArticleIds == { p.kb_article_id : p \in pending }

UnusedArticleIds == ArticleIds \ (DOMAIN articles \cup PendingArticleIds)

\* str(uuid.uuid4()) of a first publish: an id no article and no session has
FreshArticleId == CHOOSE a \in UnusedArticleIds : \A b \in UnusedArticleIds : a <= b

\* The UPDATE the flush issues for a loaded row: by primary key, setting the
\* columns whose value the function changed.
FlushRow(row, loaded, changed) ==
    [c \in DOMAIN row |-> IF changed[c] # loaded[c] THEN changed[c] ELSE row[c]]

\* publish_draft up to its last assignment.
PublishQuery(draft_id, reviewer, change_note, kb_article_id) ==
    IF draft_id \notin DOMAIN drafts
    THEN Raise("DraftNotFound")
    ELSE IF PublishCheck(drafts[draft_id]) # "ok"
    THEN Raise(PublishCheck(drafts[draft_id]))
    ELSE IF kb_article_id # NoArticle /\ kb_article_id \notin DOMAIN articles
    THEN Raise("ArticleNotFound")
    ELSE /\ Cardinality(pending) < MaxPending
         /\ kb_article_id = NoArticle => UnusedArticleIds # {}
         /\ pending' = pending \cup
              {[op |-> "publish", draft_id |-> draft_id, reviewer |-> reviewer,
                change_note |-> change_note,
                created |-> kb_article_id = NoArticle,
                kb_article_id |-> IF kb_article_id = NoArticle THEN FreshArticleId
                                  ELSE kb_article_id,
                draft |-> drafts[draft_id],
                article |-> IF kb_article_id = NoArticle
                            THEN NewArticle(draft_id, drafts[draft_id], drafts[draft_id].title,
                                            drafts[draft_id].body_markdown,
                                            _get_taxonomy(drafts[draft_id]))
                            ELSE articles[kb_article_id],
                version_number |-> IF kb_article_id = NoArticle THEN 1
                                   ELSE NextVersionNumber(articles[kb_article_id])]}
         /\ UNCHANGED <<drafts, articles, versions, events, rollbacks, ops, result, evidence, gen, edges>>

\* session.commit() of publish_draft
PublishCommit(p) ==
    /\ p \in pending
    /\ p.op = "publish"
    /\ articles' =
          IF p.created
          THEN Extend(articles, p.kb_article_id, p.article)
          ELSE [articles EXCEPT ![p.kb_article_id] =
                  FlushRow(@, p.article,
                           UpdateArticle(p.article, p.draft_id, p.draft.title,
                                         p.draft.body_markdown, _get_taxonomy(p.draft),
                                         p.version_number))]
    /\ versions' = AddVersion(versions, p.kb_article_id,
                      [kb_article_id |-> p.kb_article_id, version |-> p.version_number,
                       source_draft_id |-> p.draft_id, body_markdown |-> p.draft.body_markdown,
                       title |-> p.draft.title, reviewer |-> p.reviewer,
                       change_note |-> p.change_note, is_rollback |-> FALSE])
    /\ drafts' = [drafts EXCEPT ![p.draft_id] =
                    FlushRow(@, p.draft, [p.draft EXCEPT !.status = "published",
                                                         !.published_at = utcnow])]
    /\ events' = _log_event(events, "published", p.draft_id, p.draft.ticket_id,
                    [NoMeta EXCEPT !.kb_article_id = p.kb_article_id,
                                   !.version = p.version_number])
    /\ pending' = pending \ {p}
    /\ result' = "ok"
    /\ Committed
    /\ UNCHANGED <<rollbacks, evidence, gen, edges>>

\* rollback_version up to its last assignment.
RollbackQuery(kb_article_id, target_version, reviewer, note) ==
    IF kb_article_id \notin DOMAIN articles
    THEN Raise("ArticleNotFound")
    ELSE IF TargetRows(kb_article_id, target_version) = {}
    THEN Raise("VersionNotFound")
    ELSE IF Cardinality(TargetRows(kb_article_id, target_version)) > 1
    THEN Raise("MultipleResultsFound")
    ELSE /\ rollbacks < MaxRollbacks
         /\ Cardinality(pending) < MaxPending
         /\ pending' = pending \cup
              {[op |-> "rollback", draft_id |-> NoDraft, kb_article_id |-> kb_article_id,
                target_version |-> target_version, reviewer |-> reviewer, note |-> note,
                article |-> articles[kb_article_id],
                target |-> versions[kb_article_id][CHOOSE i \in TargetRows(kb_article_id, target_version) : TRUE],
                version_number |-> NextVersionNumber(articles[kb_article_id])]}
         /\ rollbacks' = rollbacks + 1
         /\ UNCHANGED <<drafts, articles, versions, events, ops, result, evidence, gen, edges>>

\* session.commit() of rollback_version
RollbackCommit(p) ==
    /\ p \in pending
    /\ p.op = "rollback"
    /\ versions' = AddVersion(versions, p.kb_article_id,
                      [kb_article_id |-> p.kb_article_id, version |-> p.version_number,
                       source_draft_id |-> NoDraft, body_markdown |-> p.target.body_markdown,
                       title |-> p.target.title, reviewer |-> p.reviewer,
                       change_note |-> p.note, is_rollback |-> TRUE])
    /\ articles' = [articles EXCEPT ![p.kb_article_id] =
                      FlushRow(@, p.article,
                               RollbackArticle(p.article, p.target, p.version_number))]
    /\ events' = _log_event(events, "rollback", NoDraft, p.article.source_ticket_id,
                    [NoMeta EXCEPT !.kb_article_id = p.kb_article_id,
                                   !.target_version = p.target_version,
                                   !.version = p.version_number])
    /\ pending' = pending \ {p}
    /\ result' = "ok"
    /\ Committed
    /\ UNCHANGED <<drafts, rollbacks, evidence, gen, edges>>

NextPublishRace ==
    \/ \E t \in Tickets, doc \in CaseDocs : Generate(t, doc)
    \/ \E d \in DraftIds, r \in Reviewers, n \in Notes : Approve(d, r, n)
    \/ \E d \in DraftIds, r \in Reviewers, n \in Notes, a \in PublishArgs : PublishQuery(d, r, n, a)
    \/ \E p \in pending : PublishCommit(p)
    \/ \E a \in ArticleIds : \E v \in VersionArgs(a), r \in Reviewers :
          RollbackQuery(a, v, r, RollbackNote)
    \/ \E p \in pending : RollbackCommit(p)

SpecPublishRace == Init /\ [][NextPublishRace]_vars

\* ------------------------------------------------------------------ claims

\* C1: every change of a draft's status is one of draft -> approved, rejected,
\* superseded or approved -> published, rejected, superseded; no draft row
\* disappears and a rejected, published or superseded draft keeps its status.
C1_StatusChangesFollowTable ==
    [][\A d \in DOMAIN drafts :
         /\ d \in DOMAIN drafts'
         /\ drafts'[d].status # drafts[d].status =>
              \/ /\ drafts[d].status = "draft"
                 /\ drafts'[d].status \in {"approved", "rejected", "superseded"}
              \/ /\ drafts[d].status = "approved"
                 /\ drafts'[d].status \in {"published", "rejected", "superseded"}]_vars

C1_Witness ==
    /\ \E d \in DOMAIN drafts : drafts[d].status = "published"
    /\ \E d \in DOMAIN drafts : drafts[d].status = "superseded"
    /\ result = "Invalid status transition: published -> rejected"

\* C2: each ticket has at most one draft whose status is draft or approved.
C2_OneActiveDraftPerTicket ==
    \A t \in Tickets :
        Cardinality({ d \in DOMAIN drafts :
                        drafts[d].ticket_id = t /\ drafts[d].status \in {"draft", "approved"} }) <= 1

C2_Witness ==
    \E d, e \in DOMAIN drafts :
        /\ drafts[d].ticket_id = drafts[e].ticket_id
        /\ drafts[d].status = "superseded"
        /\ drafts[d].reviewer = NULL
        /\ drafts[d].review_notes = GenReason
        /\ Len(events[d]) = 3
        /\ drafts[e].status = "draft"

\* C3: the version table only grows: every version row of every article is
\* still there, in its place and with the same fields, after any step.
C3_VersionsAppendOnly ==
    [][\A a \in DOMAIN versions :
         /\ a \in DOMAIN versions'
         /\ Len(versions'[a]) >= Len(versions[a])
         /\ \A i \in 1 .. Len(versions[a]) : versions'[a][i] = versions[a][i]]_vars

C3_Witness ==
    \E a \in DOMAIN versions :
        /\ Len(versions[a]) = 3
        /\ versions[a][3].is_rollback
        /\ ~versions[a][2].is_rollback

\* C4: the version rows of an article are numbered 1, 2, ... in the order
\* they were appended, without gap or repetition, up to current_version.
C4_VersionNumbersDense ==
    /\ DOMAIN versions = DOMAIN articles
    /\ \A a \in DOMAIN articles :
         /\ Len(versions[a]) = articles[a].current_version
         /\ \A i \in 1 .. Len(versions[a]) :
              /\ versions[a][i].version = i
              /\ versions[a][i].kb_article_id = a

C4_Witness ==
    \E a \in DOMAIN articles :
        /\ articles[a].current_version = 3
        /\ \E i \in 1 .. 3 : versions[a][i].is_rollback

\* C5: publish of a draft whose status is draft, rejected or superseded
\* raises and leaves drafts, articles, versions and events as they were; a
\* draft becomes published only from approved.
C5_PublishNeedsApproved ==
    /\ [][\A d \in DOMAIN drafts, r \in Reviewers, n \in Notes, a \in PublishArgs :
            (drafts[d].status \in {"draft", "rejected", "superseded"} /\ Publish(d, r, n, a))
               => (result' = "NotApproved" /\ UNCHANGED store)]_vars
    /\ [](\A a \in DOMAIN versions : \A i \in 1 .. Len(versions[a]) :
            LET d == versions[a][i].source_draft_id
            IN d # NoDraft =>
                 \E j, k \in 1 .. Len(events[d]) :
                    /\ j < k
                    /\ events[d][j].event_type = "approved"
                    /\ events[d][k].event_type = "published")

C5_Witness ==
    /\ result = "NotApproved"
    /\ \E d \in DOMAIN drafts : drafts[d].status = "superseded"
    /\ \E d \in DOMAIN drafts : drafts[d].status = "rejected"
\* C6: publish of a draft that is already published raises AlreadyPublished,
\* whatever article id is passed, and writes nothing; no draft is the source
\* of two version rows.
C6_PublishOnce ==
    /\ [][\A d \in DOMAIN drafts, r \in Reviewers, n \in Notes, a \in PublishArgs :
            (drafts[d].status = "published" /\ Publish(d, r, n, a))
               => (result' = "AlreadyPublished" /\ UNCHANGED store)]_vars
    /\ [](\A d \in DOMAIN drafts :
            Cardinality({ ai \in (DOMAIN versions) \X (1 .. MaxDrafts + MaxRollbacks + 1) :
                            /\ ai[2] <= Len(versions[ai[1]])
                            /\ versions[ai[1]][ai[2]].source_draft_id = d }) <= 1)

C6_Witness ==
    /\ result = "AlreadyPublished"
    /\ \E a \in DOMAIN versions : Len(versions[a]) = 2

\* C7: publish of an approved draft appends one version row carrying the
\* draft's title and body, numbered 1 on a new article or current_version + 1
\* on the article passed; the article then shows that row's number, title and
\* body, the draft is published with published_at stamped, and no other
\* article or version row changes.
C7_PublishAppendsOneVersion ==
    [][\A d \in DOMAIN drafts, r \in Reviewers, n \in Notes, a \in PublishArgs :
         (/\ drafts[d].status = "approved"
          /\ drafts[d].published_at = NoTime
          /\ a \in DOMAIN articles \cup {NoArticle}
          /\ Publish(d, r, n, a))
         => \E art \in DOMAIN articles' :
              LET row == versions'[art][Len(versions'[art])] IN
              /\ result' = "ok"
              /\ IF a = NoArticle
                 THEN /\ art \notin DOMAIN articles
                      /\ versions'[art] = <<row>>
                      /\ row.version = 1
                 ELSE /\ art = a
                      /\ versions'[art] = Append(versions[art], row)
                      /\ row.version = articles[a].current_version + 1
              /\ row.is_rollback = FALSE
              /\ row.source_draft_id = d
              /\ row.title = drafts[d].title
              /\ row.body_markdown = drafts[d].body_markdown
              /\ row.kb_article_id = art
              /\ articles'[art].current_version = row.version
              /\ articles'[art].title = row.title
              /\ articles'[art].body_markdown = row.body_markdown
              /\ drafts'[d].status = "published"
              /\ drafts'[d].published_at # NoTime
              /\ DOMAIN articles' = DOMAIN articles \cup {art}
              /\ \A o \in DOMAIN articles \ {art} :
                    articles'[o] = articles[o] /\ versions'[o] = versions[o]]_vars

C7_Witness ==
    \E a \in DOMAIN articles, d \in DOMAIN drafts :
        /\ d # a
        /\ articles[a].current_version = 2
        /\ versions[a][2].source_draft_id = d
        /\ versions[a][1].body_markdown # versions[a][2].body_markdown
        /\ articles[a].body_markdown = drafts[d].body_markdown
        /\ drafts[d].status = "published"

\* C8: rollback to an existing version appends one row with is_rollback
\* true, no source draft, number current_version + 1 and the target's title
\* and body, and sets the article's title, body and version to match; the
\* earlier rows stay as they were.
C8_RollbackCopiesTarget ==
    [][\A a \in DOMAIN articles : \A v \in VersionArgs(a), r \in Reviewers :
         (/\ \E i \in 1 .. Len(versions[a]) : versions[a][i].version = v
          /\ Rollback(a, v, r, RollbackNote))
         => LET target == versions[a][CHOOSE i \in 1 .. Len(versions[a]) : versions[a][i].version = v]
                row == versions'[a][Len(versions'[a])]
            IN /\ result' = "ok"
               /\ versions'[a] = Append(versions[a], row)
               /\ row.is_rollback = TRUE
               /\ row.source_draft_id = NoDraft
               /\ row.version = articles[a].current_version + 1
               /\ row.title = target.title
               /\ row.body_markdown = target.body_markdown
               /\ articles'[a].title = target.title
               /\ articles'[a].body_markdown = target.body_markdown
               /\ articles'[a].current_version = row.version]_vars

\* publish v1 with body A, publish v2 with body B, roll back to 1: the current
\* version is 3 with body A.
C8_Witness ==
    \E a \in DOMAIN articles :
        /\ Len(versions[a]) = 3
        /\ versions[a][1].body_markdown = "A" /\ ~versions[a][1].is_rollback
        /\ versions[a][2].body_markdown = "B" /\ ~versions[a][2].is_rollback
        /\ versions[a][3].is_rollback /\ versions[a][3].body_markdown = "A"
        /\ articles[a].current_version = 3
        /\ articles[a].body_markdown = "A"
        /\ articles[a].title = "tA"

\* C9: rollback of an article that does not exist, or to a version number
\* that has no row for the article, raises and writes nothing; so does
\* publish of an approved draft into an article id that does not exist, and
\* the draft stays approved.
C9_MissingTargetsFail ==
    [][/\ \A a \in ArticleIds : \A v \in VersionArgs(a), r \in Reviewers :
            (/\ \/ a \notin DOMAIN articles
                \/ \A i \in 1 .. Len(versions[a]) : versions[a][i].version # v
             /\ Rollback(a, v, r, RollbackNote))
            => /\ result' = (IF a \in DOMAIN articles THEN "VersionNotFound" ELSE "ArticleNotFound")
               /\ UNCHANGED store
       /\ \A d \in { x \in DOMAIN drafts : drafts[x].status = "approved" },
             a \in ArticleIds \ DOMAIN articles, r \in Reviewers, n \in Notes :
            Publish(d, r, n, a)
            => /\ result' = "ArticleNotFound"
               /\ UNCHANGED store
               /\ drafts'[d].status = "approved"]_vars

C9_Witness ==
    /\ result = "VersionNotFound"
    /\ \E a \in DOMAIN articles : articles[a].current_version = 2
    /\ \E d \in DOMAIN drafts : drafts[d].status = "approved"

\* C10: approve(d, reviewer) turns every other draft or approved draft of
\* d's ticket into superseded, stamped with the approving reviewer and the
\* supersession reason, and leaves the drafts of other tickets and the drafts
\* in a terminal status as they were.
C10_ApproveCascade ==
    [][\A d \in DOMAIN drafts, r \in Reviewers, n \in Notes :
         (drafts[d].status = "draft" /\ Approve(d, r, n))
         => /\ result' = "ok"
            /\ DOMAIN drafts' = DOMAIN drafts
            /\ drafts'[d].status = "approved"
            /\ \A e \in DOMAIN drafts \ {d} :
                 IF /\ drafts[e].ticket_id = drafts[d].ticket_id
                    /\ drafts[e].status \in {"draft", "approved"}
                 THEN /\ drafts'[e].status = "superseded"
                      /\ drafts'[e].reviewer = r
                      /\ drafts'[e].review_notes = ApproveReason
                      /\ drafts'[e].reviewed_at # NoTime
                      /\ drafts'[e].title = drafts[e].title
                      /\ drafts'[e].body_markdown = drafts[e].body_markdown
                      /\ drafts'[e].ticket_id = drafts[e].ticket_id
                      /\ drafts'[e].published_at = drafts[e].published_at
                 ELSE drafts'[e] = drafts[e]]_vars

\* Two drafts of one ticket were active at once and the approval of one
\* superseded the other.
C10_Witness ==
    \E d, e \in DOMAIN drafts :
        /\ d # e
        /\ drafts[d].ticket_id = drafts[e].ticket_id
        /\ drafts[d].status = "approved"
        /\ drafts[e].status = "superseded"
        /\ drafts[e].reviewer = drafts[d].reviewer
        /\ drafts[e].review_notes = ApproveReason
        /\ events[e][Len(events[e])].metadata.kept_draft_id = d

\* C11: approve of a draft whose status is approved, rejected, published or
\* superseded raises "Invalid status transition: <status> -> approved" and
\* leaves every draft, article, version row and event as it was; approve of a
\* draft in status draft succeeds and sets status approved, the reviewer, the
\* review time and the notes on it.
C11_ApproveOnlyFromDraft ==
    [][\A d \in DOMAIN drafts, r \in Reviewers, n \in Notes :
         Approve(d, r, n) =>
            IF drafts[d].status = "draft"
            THEN /\ result' = "ok"
                 /\ drafts'[d] = [drafts[d] EXCEPT !.status = "approved",
                                                   !.reviewer = r,
                                                   !.reviewed_at = utcnow,
                                                   !.review_notes = n]
                 /\ drafts'[d].reviewed_at # NoTime
            ELSE /\ result' = "Invalid status transition: " \o drafts[d].status \o " -> approved"
                 /\ UNCHANGED store]_vars

\* An approved draft was approved again while another draft of its ticket was
\* in status draft: the call raised and the other draft was not superseded.
C11_Witness ==
    \E d, e \in DOMAIN drafts :
        /\ d # e
        /\ drafts[d].ticket_id = drafts[e].ticket_id
        /\ drafts[d].status = "approved"
        /\ drafts[d].reviewer \in Reviewers
        /\ drafts[e].status = "draft"
        /\ result = "Invalid status transition: approved -> approved"

\* C12: reject of a draft in status draft or approved succeeds, sets status
\* rejected, the reviewer, the review time and the notes on that draft,
\* appends one "rejected" event for it, and leaves every other draft, every
\* other event, every article and every version row as it was.
C12_RejectTouchesOneDraft ==
    [][\A d \in DOMAIN drafts, r \in Reviewers, n \in Notes :
         (drafts[d].status \in {"draft", "approved"} /\ Reject(d, r, n))
         => /\ result' = "ok"
            /\ DOMAIN drafts' = DOMAIN drafts
            /\ \A e \in DOMAIN drafts \ {d} : drafts'[e] = drafts[e]
            /\ drafts'[d] = [drafts[d] EXCEPT !.status = "rejected",
                                              !.reviewer = r,
                                              !.reviewed_at = utcnow,
                                              !.review_notes = n]
            /\ \A e \in DOMAIN events \ {d} : events'[e] = events[e]
            /\ Len(events'[d]) = Len(events[d]) + 1
            /\ SubSeq(events'[d], 1, Len(events[d])) = events[d]
            /\ events'[d][Len(events'[d])].event_type = "rejected"
            /\ UNCHANGED <<articles, versions>>]_vars

\* An approved draft was rejected while another draft of its ticket was
\* active: the other draft is still active.
C12_Witness ==
    \E d, e \in DOMAIN drafts :
        /\ d # e
        /\ drafts[d].ticket_id = drafts[e].ticket_id
        /\ drafts[d].status = "rejected"
        /\ Len(events[d]) = 3
        /\ events[d][2].event_type = "approved"
        /\ events[d][3].event_type = "rejected"
        /\ drafts[e].status \in {"draft", "approved"}
        /\ result = "ok"

\* C13: when generate creates draft D2 for a ticket that has a draft D1 in
\* status draft or approved, D1 is superseded afterwards, D2 is in status
\* draft, and D1's events grew by exactly one event, of type superseded,
\* naming D2 as the draft kept.
C13_GenerateSupersedesEarlier ==
    [][\A t \in Tickets, doc \in CaseDocs, d1 \in DOMAIN drafts :
         (/\ drafts[d1].ticket_id = t
          /\ drafts[d1].status \in {"draft", "approved"}
          /\ Generate(t, doc))
         => \E d2 \in DOMAIN drafts' \ DOMAIN drafts :
              /\ DOMAIN drafts' = DOMAIN drafts \cup {d2}
              /\ drafts'[d2].ticket_id = t
              /\ drafts'[d2].status = "draft"
              /\ drafts'[d1].status = "superseded"
              /\ Len(events'[d1]) = Len(events[d1]) + 1
              /\ SubSeq(events'[d1], 1, Len(events[d1])) = events[d1]
              /\ events'[d1][Len(events'[d1])].event_type = "superseded"
              /\ events'[d1][Len(events'[d1])].metadata.kept_draft_id = d2]_vars

\* An approved draft was superseded by the generation of a second draft of
\* its ticket.
C13_Witness ==
    \E d1, d2 \in DOMAIN drafts :
        /\ d1 # d2
        /\ drafts[d1].ticket_id = drafts[d2].ticket_id
        /\ drafts[d1].status = "superseded"
        /\ Len(events[d1]) = 3
        /\ events[d1][2].event_type = "approved"
        /\ events[d1][3].event_type = "superseded"
        /\ events[d1][3].metadata.kept_draft_id = d2
        /\ drafts[d2].status = "draft"
        /\ Len(events[d2]) = 1

\* C14: in every step the events of every draft are kept, in order and
\* unmodified; a draft whose status changed gained exactly one event, whose
\* type is the new status, and a draft whose status did not change gained
\* none; a new draft starts with the one event "draft_generated"; the events
\* without a draft grow by one "rollback" event exactly when a rollback
\* succeeded; and a call that raised added no event at all.
C14_OneEventPerChange ==
    [][/\ \A k \in DOMAIN events :
            /\ Len(events'[k]) >= Len(events[k])
            /\ SubSeq(events'[k], 1, Len(events[k])) = events[k]
       /\ \A d \in DOMAIN drafts :
            IF drafts'[d].status # drafts[d].status
            THEN /\ Len(events'[d]) = Len(events[d]) + 1
                 /\ events'[d][Len(events'[d])].event_type = drafts'[d].status
                 /\ events'[d][Len(events'[d])].draft_id = d
            ELSE events'[d] = events[d]
       /\ \A d \in DOMAIN drafts' \ DOMAIN drafts :
            /\ Len(events'[d]) = 1
            /\ events'[d][1].event_type = "draft_generated"
            /\ events'[d][1].draft_id = d
       /\ \A d \in DraftIds \ DOMAIN drafts' : events'[d] = << >>
       /\ IF rollbacks' # rollbacks
          THEN /\ Len(events'[NoDraft]) = Len(events[NoDraft]) + 1
               /\ events'[NoDraft][Len(events'[NoDraft])].event_type = "rollback"
          ELSE events'[NoDraft] = events[NoDraft]
       /\ result' # "ok" => events' = events]_vars

\* Published, superseded by a direct cascade, rolled back, and then a call
\* that raised.
C14_Witness ==
    /\ \E d \in DOMAIN drafts :
         /\ Len(events[d]) = 3
         /\ events[d][3].event_type = "published"
    /\ \E e \in DOMAIN drafts :
         /\ Len(events[e]) = 2
         /\ events[e][2].event_type = "superseded"
    /\ Len(events[NoDraft]) = 1
    /\ result # "ok"

\* C15: export of an id that has no article row raises and export of an
\* existing article succeeds, neither writing anything; and the title and
\* body export returns for an article are those of a version row of that
\* article that a publish wrote from a draft which was approved before it was
\* published and whose title and body they are.
C15_ExportOnlyPublished ==
    /\ [][\A a \in ArticleIds :
            Export(a) => /\ result' = (IF a \in DOMAIN articles THEN "ok" ELSE "ArticleNotFound")
                         /\ UNCHANGED store]_vars
    /\ [](\A a \in DOMAIN articles :
            LET payload == export_for_indexer(a) IN
            /\ payload.kb_article_id = a
            /\ \E i \in 1 .. Len(versions[a]) :
                 LET row == versions[a][i]
                     d == row.source_draft_id
                 IN /\ ~row.is_rollback
                    /\ row.title = payload.title
                    /\ row.body_markdown = payload.body_markdown
                    /\ d \in DOMAIN drafts
                    /\ drafts[d].title = payload.title
                    /\ drafts[d].body_markdown = payload.body_markdown
                    /\ drafts[d].status = "published"
                    /\ \E j, k \in 1 .. Len(events[d]) :
                         /\ j < k
                         /\ events[d][j].event_type = "approved"
                         /\ events[d][k].event_type = "published")

\* An article published from one draft while a newer draft of the same
\* ticket with another body waits in status draft, and an export that found
\* no article.
C15_Witness ==
    /\ result = "ArticleNotFound"
    /\ \E a \in DOMAIN articles, d \in DOMAIN drafts :
         /\ drafts[d].ticket_id = articles[a].source_ticket_id
         /\ drafts[d].status = "draft"
         /\ drafts[d].body_markdown # export_for_indexer(a).body_markdown

C17_CollaboratorFailureFallsBack ==
    (gen # NoGen /\ gen.ticket_id \in KnownTickets) =>
        /\ result = "ok"
        /\ gen.draft_id \in DOMAIN drafts
        /\ drafts[gen.draft_id].status = "draft"
        /\ (gen.mode = "deterministic"
              /\ (~gen.api_key \/ gen.replies.document \in {"raises", "malformed"}))
           => gen.case_json =
                  build_case_json_deterministic(build_case_bundle(evidence, gen.ticket_id))

C19_NoReuseAcrossSections ==
    (gen # NoGen /\ result = "ok" /\ gen.mode = "rlm") =>
        LET ids_by_section == _collect_section_ids(gen.case_json)
        IN \A s, t \in Range(VerifierSections) :
               (s # t /\ {s, t} # {"resolution_steps", "verification_steps"})
                   => Range(ids_by_section[s]) \cap Range(ids_by_section[t]) = {}

\* C19 witness: a collaborator that names every id it knows answers for the
\* symptoms after the problem took the Description unit, and a verification
\* step shares its id with a resolution step.
C19_Witness ==
    /\ gen # NoGen /\ result = "ok" /\ gen.mode = "rlm" /\ gen.api_key
    /\ gen.replies.symptoms = "every"
    /\ LET ids_by_section == _collect_section_ids(gen.case_json)
       IN /\ "EU-D" \in Range(ids_by_section.problem)
          /\ ids_by_section.symptoms # << >>
          /\ ids_by_section.placeholders_needed # << >>
          /\ Range(ids_by_section.verification_steps)
                 \cap Range(ids_by_section.resolution_steps) # {}

\* C20: for a ticket whose evidence is exactly one TICKET Description unit
\* and one TICKET Resolution unit, the assembled document cites the
\* Description id for problem and has exactly one resolution step, citing
\* the Resolution id; the verifier reports ok; and the lineage derived from
\* the document has exactly one edge for the resolution_steps section, of
\* relationship CREATED_FROM.
C20_DescriptionResolutionScenario ==
    (/\ gen # NoGen /\ result = "ok" /\ gen.mode = "rlm"
     /\ { u.evidence_unit_id : u \in evidence } = {"EU-D", "EU-R"}) =>
        LET case_json == gen.case_json
            derived == { e \in Range(write_lineage_edges(gen.draft_id, case_json, evidence)) :
                             e.section_label = "resolution_steps" }
        IN /\ ParsedSourceIds(case_json.evidence_sources, "problem") = <<"EU-D">>
           /\ Len(case_json.resolution_steps) = 1
           /\ case_json.resolution_steps[1].evidence_unit_ids = <<"EU-R">>
           /\ gen.verifier.ok
           /\ Cardinality(derived) = 1
           /\ \A e \in derived : e.relationship = "CREATED_FROM" /\ e.evidence_unit_id = "EU-R"

\* C21: deriving the lineage of a draft again from the same document,
\* without clearing the edges stored before, never leaves two stored edges
\* with the same draft_id, evidence_unit_id and section_label.
C21_NoDuplicateEdges ==
    \A i, j \in 1 .. Len(edges) :
        (/\ edges[i].draft_id = edges[j].draft_id
         /\ edges[i].evidence_unit_id = edges[j].evidence_unit_id
         /\ edges[i].section_label = edges[j].section_label) => i = j

\* C21 witness: the lineage was stored and a second derivation was refused.
C21_Witness == Len(edges) >= 2 /\ result = "IntegrityError"

\* C22: deriving the lineage of a draft that has none stores exactly one
\* edge for each distinct pair of a section and an evidence id the document
\* cites for it, in a step or placeholder of the section or in the
\* evidence-source index or in both, whose id the evidence table holds; it
\* stores no edge for an id the table does not hold, and nothing when
\* nothing is cited.
C22_OneEdgePerCitedPair ==
    [][(DeriveLineage /\ edges = << >>) =>
        LET doc == gen.case_json
            InSteps(s) ==
                IF s = "resolution_steps"
                THEN UNION { Range(doc.resolution_steps[i].evidence_unit_ids) :
                                 i \in 1 .. Len(doc.resolution_steps) }
                ELSE IF s = "verification_steps"
                THEN UNION { Range(doc.verification_steps[i].evidence_unit_ids) :
                                 i \in 1 .. Len(doc.verification_steps) }
                ELSE IF s = "placeholders_needed"
                THEN UNION { Range(doc.placeholders_needed[i].evidence_unit_ids) :
                                 i \in 1 .. Len(doc.placeholders_needed) }
                ELSE {}
            InIndex(s) ==
                UNION { Range(doc.evidence_sources[i].ids) :
                            i \in { k \in 1 .. Len(doc.evidence_sources) :
                                        doc.evidence_sources[k].label = s } }
            held == { u.evidence_unit_id : u \in evidence }
            pairs == { p \in Range(VerifierSections) \X (held \cup {FakeId}) :
                           p[2] \in InSteps(p[1]) \cup InIndex(p[1]) }
            resolved == { p \in pairs : p[2] \in held }
        IN /\ Len(edges') = Cardinality(resolved)
           /\ { <<edges'[i].section_label, edges'[i].evidence_unit_id>> :
                    i \in 1 .. Len(edges') } = resolved
           /\ \A i \in 1 .. Len(edges') : edges'[i].draft_id = gen.draft_id
           /\ result' = "ok"]_vars

\* C22 witness: the lineage stored for a document that cites one id both in
\* a resolution step and in the index, and another id, in the index, that
\* the evidence table does not hold.
C22_Witness ==
    /\ gen # NoGen /\ gen.draft_id \in DOMAIN drafts
    /\ edges # << >>
    /\ \E i \in 1 .. Len(gen.case_json.evidence_sources) :
           /\ gen.case_json.evidence_sources[i].label = "resolution_steps"
           /\ Range(gen.case_json.evidence_sources[i].ids)
                  \cap Range(StepIds(gen.case_json.resolution_steps)) # {}
    /\ \E i \in 1 .. Len(gen.case_json.evidence_sources) :
           FakeId \in Range(gen.case_json.evidence_sources[i].ids)

\* C23: every stored lineage edge has relationship REFERENCES exactly when
\* the evidence unit it points to has source type SCRIPT or PLACEHOLDER, and
\* CREATED_FROM for every other source type.
C23_RelationshipBySourceKind ==
    \A i \in 1 .. Len(edges) :
        \E u \in evidence :
            /\ u.evidence_unit_id = edges[i].evidence_unit_id
            /\ edges[i].relationship =
                   (IF u.source_type = "SCRIPT" \/ u.source_type = "PLACEHOLDER"
                    THEN "REFERENCES" ELSE "CREATED_FROM")

\* C23 witness: the stored lineage has an edge to a SCRIPT unit, one to a
\* PLACEHOLDER unit, one to a TICKET unit and one to a CONVERSATION unit.
C23_Witness ==
    \A kind \in {"SCRIPT", "PLACEHOLDER", "TICKET", "CONVERSATION"} :
        \E i \in 1 .. Len(edges) : \E u \in evidence :
            u.evidence_unit_id = edges[i].evidence_unit_id /\ u.source_type = kind

C25_RaceLeavesTwoDrafts ==
    [][\A p \in pending :
         GenerateCommit(p) =>
            \A d \in DOMAIN drafts :
               (/\ drafts[d].ticket_id = p.ticket_id
                /\ drafts[d].status = "draft"
                /\ d \notin DOMAIN p.loaded)
               => /\ drafts'[d].status = "draft"
                  /\ drafts'[p.draft_id].status = "draft"
                  /\ drafts'[p.draft_id].ticket_id = drafts'[d].ticket_id]_vars

\* Both requests have committed and one ticket has two drafts in status draft.
C25_Witness ==
    /\ pending = {}
    /\ \E d, e \in DOMAIN drafts :
          /\ d # e
          /\ drafts[d].ticket_id = drafts[e].ticket_id
          /\ drafts[d].status = "draft"
          /\ drafts[e].status = "draft"

\* C26: in the section synthesizer, whatever ids the collaborator returns,
\* the ids a section ends up citing are a subset of the candidate set
\* offered for that section, and never include an id an earlier section of
\* the same assembly already cited.
C26_CitedWithinCandidates ==
    gen # NoGen =>
       /\ Range(gen.selected_ids) \subseteq Range(IdsOf(gen.candidates))
       /\ Range(gen.selected_ids) \cap gen.used_ids = {}

\* The collaborator was asked and returned an id no unit has, an id an
\* earlier section used and ids of candidates; the section cites something.
C26_Witness ==
    /\ gen # NoGen
    /\ gen.call.asked
    /\ FakeId \in Range(gen.call.answer.evidence_unit_ids)
    /\ Range(gen.call.answer.evidence_unit_ids) \cap gen.used_ids # {}
    /\ gen.text = gen.call.answer.text
    /\ gen.selected_ids # << >>

\* C27 (as stated): if the collaborator's answer for a section contains at
\* least one evidence id outside that section's candidate set, the whole
\* answer (text and ids) is discarded and the section is the deterministic
\* fallback: the concatenation of all candidate snippets, citing all
\* candidates.
C27_ForeignIdDiscardsAnswer ==
    (/\ gen # NoGen
     /\ gen.call.asked
     /\ ~gen.call.answer.raised
     /\ Range(gen.call.answer.evidence_unit_ids) \ Range(IdsOf(gen.candidates)) # {})
    => /\ gen.text = JoinSnippets(gen.candidates)
       /\ gen.selected_ids = _dedupe_ids(IdsOf(gen.candidates))

\* C27 (amended): an id of the answer outside the candidate set is dropped.
\* When the answer has a text and at least one of its ids is a candidate, the
\* section keeps the collaborator's text and cites exactly the returned ids
\* that are candidates; only when the text is empty or no returned id is a
\* candidate is the answer discarded and the section the deterministic
\* fallback over all candidates.
C27_ForeignIdIsDropped ==
    (/\ gen # NoGen
     /\ gen.call.asked
     /\ ~gen.call.answer.raised
     /\ Range(gen.call.answer.evidence_unit_ids) \ Range(IdsOf(gen.candidates)) # {})
    => IF /\ gen.call.answer.text # ""
          /\ Range(gen.call.answer.evidence_unit_ids) \cap Range(IdsOf(gen.candidates)) # {}
       THEN /\ gen.text = gen.call.answer.text
            /\ Range(gen.selected_ids) =
                  Range(gen.call.answer.evidence_unit_ids) \cap Range(IdsOf(gen.candidates))
       ELSE /\ gen.text = JoinSnippets(gen.candidates)
            /\ gen.selected_ids = _dedupe_ids(IdsOf(gen.candidates))

\* An answer with an id that is not a candidate was kept: the section has
\* the collaborator's text, which is not the candidates' snippets, and cites
\* the candidates the answer named.
C27_Witness ==
    /\ gen # NoGen
    /\ gen.call.asked
    /\ Range(gen.call.answer.evidence_unit_ids) \ Range(IdsOf(gen.candidates)) # {}
    /\ gen.text = gen.call.answer.text
    /\ gen.text # JoinSnippets(gen.candidates)
    /\ Range(gen.selected_ids) \subseteq Range(gen.call.answer.evidence_unit_ids)
    /\ Range(gen.selected_ids) # {}

\* C28: verify reports the cross-section reuse error exactly when some
\* evidence id is cited by two different sections other than the
\* resolution_steps/verification_steps pair; a document whose only defect is
\* an id repeated inside a single section gets the within-section duplicate
\* error but not the cross-section reuse error.
C28_CrossSectionErrorExact ==
    gen # NoGen =>
       LET ids == _collect_section_ids(gen.case_json)
           reused == \E s, t \in Range(VerifierSections) :
                        /\ s # t
                        /\ {s, t} # {"resolution_steps", "verification_steps"}
                        /\ Range(ids[s]) \cap Range(ids[t]) # {}
       IN ("evidence_unit_ids are reused across sections." \in gen.verifier.errors) <=> reused

\* C29: verify's section-anchor check fails exactly when some non-empty
\* section among problem, symptoms, root cause and resolution steps cites no
\* evidence id; a document whose resolution-steps section is empty and whose
\* other non-empty sections are all cited passes the section-anchor check.
C29_SectionAnchorsExact ==
    gen # NoGen =>
       LET ids == _collect_section_ids(gen.case_json)
           uncited == \/ gen.case_json.problem # "" /\ ids.problem = << >>
                      \/ gen.case_json.symptoms # << >> /\ ids.symptoms = << >>
                      \/ gen.case_json.root_cause # NULL /\ ids.root_cause = << >>
                      \/ gen.case_json.resolution_steps # << >> /\ ids.resolution_steps = << >>
       IN ~gen.verifier.checks.section_anchors <=> uncited

\* C30: candidate selection excludes already-used ids before truncating.  An
\* evidence unit that matches the section's allow-list and is not already
\* used is among the candidates whenever fewer than SelectLimit unused
\* matching units rank ahead of it; when no matching unit is unused, a
\* TICKET unit of the same source ids that is not already used is among the
\* candidates whenever fewer than FallbackLimit unused TICKET units rank
\* ahead of it; however many already-used units rank ahead of it.
C30_ExcludeBeforeTruncate ==
    gen # NoGen =>
       LET rules == SECTION_RULES[gen.section_name]
           unused == { u \in evidence : /\ u.source_id \in gen.source_ids
                                        /\ u.source_type \in rules.source_types
                                        /\ u.field_name \in rules.field_names
                                        /\ u.evidence_unit_id \notin gen.used_ids }
           tickets == { u \in evidence : /\ u.source_id \in gen.source_ids
                                         /\ u.source_type = "TICKET"
                                         /\ u.evidence_unit_id \notin gen.used_ids }
       IN /\ \A u \in unused :
                Cardinality({ v \in unused : ByScoreThenOffset(v, u) }) < SelectLimit
                => u \in Range(gen.candidates)
          /\ unused = {} =>
                \A u \in tickets :
                   Cardinality({ v \in tickets : ByOffset(v, u) }) < FallbackLimit
                   => u \in Range(gen.candidates)

\* C31: supersede_others changes exactly the drafts of the given ticket,
\* other than the kept draft, whose status is in the given status set, stamps
\* the same reason and reviewer on each, and returns their count; if the
\* status set matches a draft in a terminal status the call fails with
\* InvalidTransition and no draft's status or stamps are changed by the call.
C31_SupersedeOthersAllOrNothing ==
    (gen # NoGen) =>
       LET matched == { d \in DOMAIN gen.before :
                           /\ gen.before[d].ticket_id = gen.ticket_id
                           /\ d # gen.keep_draft_id
                           /\ gen.before[d].status \in gen.statuses }
           terminal == { d \in matched : gen.before[d].status \notin {"draft", "approved"} }
       IN IF terminal = {}
          THEN /\ ~gen.raised
               /\ gen.count = Cardinality(matched)
               /\ \A d \in DOMAIN gen.before :
                     IF d \in matched
                     THEN /\ gen.session_drafts[d].status = "superseded"
                          /\ gen.session_drafts[d].review_notes = gen.reason
                          /\ gen.session_drafts[d].reviewer = gen.reviewer
                     ELSE gen.session_drafts[d] = gen.before[d]
          ELSE /\ gen.raised
               /\ \E d \in terminal :
                     gen.error = InvalidTransition(gen.before[d].status, "superseded")
               /\ \A d \in DOMAIN gen.before :
                     /\ gen.session_drafts[d].status = gen.before[d].status
                     /\ gen.session_drafts[d].reviewer = gen.before[d].reviewer
                     /\ gen.session_drafts[d].reviewed_at = gen.before[d].reviewed_at
                     /\ gen.session_drafts[d].review_notes = gen.before[d].review_notes

\* C32: in every reachable state, every non-rollback version row of an
\* article has a source draft whose ticket_id equals the article's
\* source_ticket_id, and the draft named by the article's latest_draft_id
\* belongs to that same ticket.
C32_ArticleOfOneTicket ==
    \A a \in DOMAIN articles :
       /\ \A i \in 1 .. Len(versions[a]) :
             ~versions[a][i].is_rollback =>
                /\ versions[a][i].source_draft_id \in DOMAIN drafts
                /\ drafts[versions[a][i].source_draft_id].ticket_id = articles[a].source_ticket_id
       /\ articles[a].latest_draft_id \in DOMAIN drafts
       /\ drafts[articles[a].latest_draft_id].ticket_id = articles[a].source_ticket_id

\* C33: two concurrent publish calls for the same approved draft never both
\* succeed: across all interleavings of their check and their writes, at
\* most one version row has that draft as source_draft_id and at most one
\* published event is logged for it.
C33_OnePublishPerDraft ==
    \A d \in DOMAIN drafts :
       /\ Cardinality({ <<a, i>> \in { <<a, i>> \in (DOMAIN versions) \X (1 .. 2 * MaxOps) :
                                         i <= Len(versions[a]) } :
                           versions[a][i].source_draft_id = d }) <= 1
       /\ Cardinality({ i \in 1 .. Len(events[d]) : events[d][i].event_type = "published" }) <= 1

\* C34: when two operations that append a version to the same article
\* (publish with that article id, or rollback) interleave their read of
\* current_version and their writes, the article's version rows still carry
\* pairwise distinct version numbers and current_version equals the number
\* of its version rows.
C34_VersionNumbersDistinct ==
    \A a \in DOMAIN articles :
       /\ \A i, j \in 1 .. Len(versions[a]) :
             i # j => versions[a][i].version # versions[a][j].version
       /\ ({ p \in pending : p.kb_article_id = a } = {}
             => articles[a].current_version = Len(versions[a]))

\* C35: generate(T) always creates a draft whose ticket_id is T and
\* supersedes only drafts of ticket T, regardless of what the external
\* collaborator returns, in any generation mode.
C35_GenerateKeepsTicket ==
    [][(gen = NoGen /\ gen' # NoGen /\ gen'.draft_id # NoDraft)
       => /\ gen'.draft_id \in DOMAIN drafts'
          /\ drafts'[gen'.draft_id].ticket_id = gen'.ticket_id
          /\ \A d \in DOMAIN drafts :
                drafts'[d] # drafts[d] => drafts[d].ticket_id = gen'.ticket_id]_vars

\* C36: in every state reachable by atomically executed operations, the
\* status of each draft is the one its most recent audit event implies
\* (draft_generated -> draft; approved, rejected, superseded and published
\* -> the status of that name), and each of these event types occurs at most
\* once among the events of a draft.
C36_StatusFollowsLastEvent ==
    \A d \in DOMAIN drafts :
       /\ events[d] # << >>
       /\ LET last == events[d][Len(events[d])].event_type
          IN drafts[d].status = IF last = "draft_generated" THEN "draft" ELSE last
       /\ \A type \in {"draft_generated", "approved", "rejected", "superseded", "published"} :
             Cardinality({ i \in 1 .. Len(events[d]) : events[d][i].event_type = type }) <= 1

\* One draft went through generation, approval and publication, another was
\* rejected, and each has the events of its path.
C36_Witness ==
    \E d, e \in DOMAIN drafts :
       /\ drafts[d].status = "published"
       /\ Len(events[d]) = 3
       /\ drafts[e].status = "rejected"
       /\ Len(events[e]) = 2

\* C37: in every state reachable by atomically executed publish and rollback
\* operations, each article's current title and body equal the title and
\* body of its version row whose number is current_version.
C37_ArticleMatchesCurrentVersion ==
    \A a \in DOMAIN articles :
       /\ Cardinality({ i \in 1 .. Len(versions[a]) :
                           versions[a][i].version = articles[a].current_version }) = 1
       /\ \A i \in 1 .. Len(versions[a]) :
             versions[a][i].version = articles[a].current_version
             => /\ articles[a].title = versions[a][i].title
                /\ articles[a].body_markdown = versions[a][i].body_markdown

\* An article was published, republished with another title and body, and
\* rolled back to its first version.
C37_Witness ==
    \E a \in DOMAIN articles :
       /\ articles[a].current_version = 3
       /\ Len(versions[a]) = 3
       /\ versions[a][3].is_rollback
       /\ versions[a][2].body_markdown # versions[a][1].body_markdown
       /\ versions[a][2].title # versions[a][1].title
       /\ articles[a].body_markdown = versions[a][1].body_markdown

\* C38: rollback changes only the article's title, body and current_version
\* and appends one version row and one event.  It leaves the article's
\* module, latest_draft_id and source_ticket_id, every other article and
\* every draft unchanged, so after a rollback export still reports the most
\* recently published draft as lineage draft, and that draft's module, not
\* those of the restored version.
C38_RollbackFrame ==
    [][\A a \in DOMAIN articles :
         (rollbacks' = rollbacks + 1 /\ versions'[a] # versions[a])
         => /\ drafts' = drafts
            /\ DOMAIN articles' = DOMAIN articles
            /\ \A b \in DOMAIN articles \ {a} : articles'[b] = articles[b] /\ versions'[b] = versions[b]
            /\ articles'[a] = [articles[a] EXCEPT !.title = articles'[a].title,
                                                  !.body_markdown = articles'[a].body_markdown,
                                                  !.current_version = articles'[a].current_version]
            /\ Len(versions'[a]) = Len(versions[a]) + 1
            /\ SubSeq(versions'[a], 1, Len(versions[a])) = versions[a]
            /\ Len(events'[NoDraft]) = Len(events[NoDraft]) + 1
            /\ \A d \in DOMAIN drafts : events'[d] = events[d]
            /\ export_for_indexer(a)'.lineage_draft_id = articles[a].latest_draft_id
            /\ export_for_indexer(a)'.module = articles[a].module
            /\ export_for_indexer(a)'.source_ticket_id = articles[a].source_ticket_id]_vars

\* An article republished from a second draft with another module was
\* rolled back to its first version: it has the first version's body and
\* the second draft as lineage draft, with that draft's module.
C38_Witness ==
    \E a \in DOMAIN articles :
       /\ Len(versions[a]) = 3
       /\ versions[a][3].is_rollback
       /\ articles[a].body_markdown = versions[a][1].body_markdown
       /\ articles[a].latest_draft_id = versions[a][2].source_draft_id
       /\ articles[a].latest_draft_id # versions[a][1].source_draft_id
       /\ articles[a].module = _get_taxonomy(drafts[versions[a][2].source_draft_id])
       /\ articles[a].module # _get_taxonomy(drafts[versions[a][1].source_draft_id])

\* C39: for every schema-valid case document, the ids the Verifier examines
\* for a section (_collect_section_ids) are, as a set, the ids the Lineage
\* Deriver walks for that section (_collect_evidence_by_section), so every
\* citation that can produce a lineage edge is one the Verifier checked.
C39_VerifierExaminesLineageIds ==
    gen # NoGen =>
        \A s \in Range(VerifierSections) :
            Range(_collect_section_ids(gen.case_json)[s])
                = Range(_collect_evidence_by_section(gen.case_json)[s])

\* C40: for every case document and evidence store, verify_case_json returns
\* ok = true exactly when its error list is empty, which is exactly when the
\* four check flags all_ids_exist, ids_deduped, required_fields and
\* section_anchors are all true.
C40_OkIffNoErrorsIffAllChecks ==
    gen # NoGen =>
        /\ gen.verifier.ok <=> gen.verifier.errors = {}
        /\ gen.verifier.errors = {} <=>
               /\ gen.verifier.checks.all_ids_exist
               /\ gen.verifier.checks.ids_deduped
               /\ gen.verifier.checks.required_fields
               /\ gen.verifier.checks.section_anchors

\* A document whose only fault is that no resolution step cites an id.
C40_Witness ==
    /\ gen # NoGen
    /\ ~gen.verifier.ok
    /\ gen.verifier.errors = {"resolution_steps must cite at least one evidence id overall."}
    /\ ~gen.verifier.checks.section_anchors
    /\ gen.verifier.checks.all_ids_exist
    /\ gen.verifier.checks.ids_deduped
    /\ gen.verifier.checks.required_fields
====
